---- MODULE Spec2Model ----
(***************************************************************************)
(* A model of slurm.py, the SLURM accounting analyser: the Cluster         *)
(* pipeline CollectJobs -> PurgeJobs -> JobStats (CollectStats, NormStats) *)
(* over a list of normalised job steps and a topology model.               *)
(*                                                                         *)
(* Representation.                                                         *)
(*  - A datetime is the number of seconds since 2016-01-01T00:00:00 (a     *)
(*    Friday); all timestamps of the model lie in January 2016.            *)
(*  - A timedelta is a number of seconds; timedelta.max is TimedeltaMax,   *)
(*    scaled down so that sums stay inside TLC's integers.                 *)
(*  - A float is an exact reduced fraction [n, d] (Rat) wherever the code  *)
(*    divides; charge modifiers and power figures are integer valued.      *)
(*  - A JobID string "12.3" is the sequence <<12, 3>> of its dot-separated *)
(*    parts, so that split('.')[0] is the one-element prefix.              *)
(*  - A storage value is tagged: Num(v) is the float v, Blank is the empty *)
(*    string that PostInit leaves unconverted.                             *)
(***************************************************************************)
EXTENDS Integers, Sequences, FiniteSets, TLC

VARIABLES
    Partitions, QOSs, Nodes, Accounts, Start, End, \* the Topology Model
    Steps,      \* Cluster['Steps']: the normalised job steps
    Jobs,       \* Cluster['Jobs']
    jobids,     \* CollectJobs: the job ids seen so far
    i,          \* CollectJobs: 1-based index of the next step of the loop
    JobStats,   \* JobStats.data: group -> key -> resource -> value
    args,       \* the arguments of the call under way
    events,     \* the events of the usage chart
    ret,        \* the value the call returned
    pc,         \* the next stage of the pipeline
    err         \* the exception that escaped, or "none"

conf == <<Partitions, QOSs, Nodes, Accounts, Start, End>>
vars == <<Partitions, QOSs, Nodes, Accounts, Start, End, Steps, Jobs, jobids,
          i, JobStats, args, events, ret, pc, err>>

-----------------------------------------------------------------------------
(* Bounds of the model. *)

\* The longest list of job steps that is explored.
MaxSteps == 3

\* The greatest bound of a range string that is explored.
MaxEnd == 11

\* The most CPUs of a job in the step-by-step run of exp_cpulist.
MaxCpus == 5

\* timedelta.max in seconds, scaled down.
TimedeltaMax == 1000000

-----------------------------------------------------------------------------
(* Program constants. *)

KB == 1024
MB == 1024 * KB
GB == 1024 * MB

MINUTE == 60
HOUR == 60 * MINUTE
DAY == 24 * HOUR

EVENT_START == 3
EVENT_END == 4

-----------------------------------------------------------------------------
(* Floats as exact fractions. *)

RECURSIVE GCD(_, _)
GCD(a, b) == IF b = 0 THEN a ELSE GCD(b, a % b)

\* The float n / d, for d > 0.
Rat(n, d) ==
    LET g == GCD(IF n < 0 THEN -n ELSE n, d)
    IN  [n |-> n \div g, d |-> d \div g]

RatAdd(a, b) == Rat(a.n * b.d + b.n * a.d, a.d * b.d)

RatMul(a, b) == Rat(a.n * b.n, a.d * b.d)

RatNeg(a) == [n |-> -a.n, d |-> a.d]

\* The float of an integer.
RatInt(k) == [n |-> k, d |-> 1]

Num(v) == [kind |-> "float", v |-> v]
Blank == [kind |-> "str", v |-> 0]

\* Sum of a sequence of integers.
RECURSIVE SumSeq(_)
SumSeq(s) == IF s = <<>> THEN 0 ELSE Head(s) + SumSeq(Tail(s))

\* Sum of the values of a function with a finite domain.
RECURSIVE SumFn(_)
SumFn(f) ==
    IF DOMAIN f = {} THEN 0
    ELSE LET x == CHOOSE y \in DOMAIN f : TRUE
         IN  f[x] + SumFn([y \in DOMAIN f \ {x} |-> f[y]])

\* Sum of a sequence of fractions.
RECURSIVE RatSumSeq(_)
RatSumSeq(s) == IF s = <<>> THEN RatInt(0) ELSE RatAdd(Head(s), RatSumSeq(Tail(s)))

\* [x] * n of Python: n copies of x.
Repeat(x, n) == [k \in 1..n |-> x]

\* F of a value that is computed once: tmp = x, then F(tmp).
Let(x, F(_)) == F(x)

-----------------------------------------------------------------------------
(* The Topology Model explored: two defined nodes, a dedicated and a       *)
(* shared partition, two QOSs, two accounts.  "n3", "px", "qx" and "ax"    *)
(* are names no definition gives.                                          *)

Node(name, ppn, pd, pi, pp, modifier) ==
    [Name |-> name, PPN |-> ppn, PowerDown |-> pd, PowerIdle |-> pi,
     PowerPeak |-> pp, Modifier |-> modifier]

Partition(name, nodelist, shared, modifier) ==
    [Name |-> name, Nodes |-> nodelist, Shared |-> shared, Modifier |-> modifier]

QOS(name, modifier) == [Name |-> name, Modifier |-> modifier]

Account(name, div, modifier) ==
    [Name |-> name, Division |-> div, Modifier |-> modifier]

NodesConf ==
    ("n1" :> Node("n1", 1, 0, 1, 3, 1)) @@ ("n2" :> Node("n2", 2, 0, 2, 6, 2))

PartitionsConf ==
    ("pd" :> Partition("pd", <<"n1", "n2">>, FALSE, 1)) @@
    ("ps" :> Partition("ps", <<"n1", "n2">>, TRUE, 2))

QOSsConf == ("normal" :> QOS("normal", 1)) @@ ("high" :> QOS("high", 2))

AccountsConf ==
    ("a1" :> Account("a1", "d1", 1)) @@ ("a2" :> Account("a2", "d2", 3))

\* A second topology: two nodes of 8 processors, one dedicated partition,
\* one QOS and one account, every modifier 1.0.
EightNodesConf ==
    ("m1" :> Node("m1", 8, 0, 8, 16, 1)) @@ ("m2" :> Node("m2", 8, 0, 8, 16, 1))

EightPartitionsConf == "pd" :> Partition("pd", <<"m1", "m2">>, FALSE, 1)

EightQOSsConf == "normal" :> QOS("normal", 1)

EightAccountsConf == "a1" :> Account("a1", "d1", 1)

\* The accounting windows of the second topology: one hour, or three.
EightWindows == {<<DAY + HOUR, DAY + 2 * HOUR>>, <<DAY, DAY + 3 * HOUR>>}

\* The accounting window [Start, End]: 2016-01-02 to 2016-01-04.
WindowStart == DAY
WindowEnd == 3 * DAY

\* Cluster['ServUnits'] and Cluster['CPUTime'] of the constructor.
ClusterServUnits ==
    (End - Start) * SumFn([x \in DOMAIN Nodes |-> Nodes[x].PPN * Nodes[x].Modifier])

ClusterCPUTime == (End - Start) * SumFn([x \in DOMAIN Nodes |-> Nodes[x].PPN])

-----------------------------------------------------------------------------
(* Job steps. *)

\* A completed step as PostInit leaves it.
DefaultStep ==
    [JobID |-> <<1>>, JobName |-> "x", User |-> "u1", Account |-> "a1",
     Group |-> "g1", QOS |-> "normal", Partition |-> "pd", Cluster |-> "c1",
     Submit |-> DAY, Eligible |-> DAY, Start |-> DAY, End |-> DAY + HOUR,
     State |-> "COMPLETED", ExitCode |-> "0:0",
     ReqCPUS |-> 1, AllocCPUS |-> 1, NNodes |-> 1, NCPUS |-> 1,
     Timelimit |-> 2 * HOUR, Reserved |-> 0, Elapsed |-> HOUR,
     TotalCPU |-> HOUR, SystemCPU |-> 0, UserCPU |-> HOUR, CPUTime |-> HOUR,
     MaxRSS |-> Num(1), MaxRSSNode |-> "n1", AveRSS |-> Num(1),
     MaxVMSize |-> Num(1), MaxVMSizeNode |-> "n1", AveVMSize |-> Num(1),
     AveDiskRead |-> Num(1), AveDiskWrite |-> Num(1),
     MaxDiskRead |-> Num(1), MaxDiskWrite |-> Num(1),
     MaxDiskReadNode |-> "n1", MaxDiskWriteNode |-> "n1",
     ConsumedEnergy |-> Blank, NodeList |-> <<"n1">>]

\* JobStep.Fields as `sacct -e` gives them (the fields the Job uses).
JobStepFields == DOMAIN DefaultStep

\* Job.Fields that a step supplies: Job.Fields, AddFields included, less
\* the derived ones.
JobCommonFields == JobStepFields

\* step['JobID'].split('.')[0]
JobIdPrefix(id) == <<Head(id)>>

-----------------------------------------------------------------------------
(* The inputs explored. *)

\* Parent and child steps of two jobs, the parents under two names.
AssemblePool ==
    {[DefaultStep EXCEPT !.JobID = <<j>>, !.JobName = n] :
        j \in {1, 2}, n \in {"x", "y"}}
    \cup
    {[DefaultStep EXCEPT !.JobID = <<j, 1>>, !.MaxRSS = m, !.MaxRSSNode = "n2"] :
        j \in {1, 2}, m \in {Blank, Num(2)}}

\* A parent step and child steps of its job, which differ in the memory
\* they report and in the node they report it for.
FoldParents ==
    {[DefaultStep EXCEPT !.MaxRSS = m, !.MaxVMSize = m] : m \in {Blank, Num(2)}}

FoldChildren ==
    {[DefaultStep EXCEPT !.JobID = <<1, 1>>,
                         !.MaxRSS = mn[1], !.MaxRSSNode = mn[2], !.AveRSS = mn[1],
                         !.MaxVMSize = IF mn[1] = Num(3) THEN Blank ELSE Num(3),
                         !.MaxVMSizeNode = mn[2]] :
        mn \in {<<Blank, "n2">>, <<Num(1), "n2">>, <<Num(2), "n1">>,
                <<Num(2), "n2">>, <<Num(3), "n1">>, <<Num(3), "n2">>}}

\* Node lists of which all, some or no nodes are defined ("" is what the
\* split of an empty NodeList gives).
CyclicNodeLists ==
    {<<"n1">>, <<"n1", "n2">>, <<"n1", "n3">>, <<"n3", "n2", "n1">>,
     <<"n3">>, <<"n3", "n4">>, <<"">>}

\* Parent steps that PurgeJobs keeps (the first three) or removes.
PurgePool ==
    {DefaultStep,
     [DefaultStep EXCEPT !.End = WindowStart],
     [DefaultStep EXCEPT !.End = WindowEnd],
     [DefaultStep EXCEPT !.Start = 0, !.End = WindowStart - HOUR],
     [DefaultStep EXCEPT !.End = WindowEnd + HOUR],
     [DefaultStep EXCEPT !.Partition = "px"],
     [DefaultStep EXCEPT !.Account = "ax"],
     [DefaultStep EXCEPT !.NodeList = <<"n1", "n3">>, !.NNodes = 2],
     [DefaultStep EXCEPT !.QOS = "qx"]}

\* One parent step over every layout, modifier and duration.
PopDataPool ==
    {[DefaultStep EXCEPT !.Partition = p, !.NodeList = nl, !.NNodes = nn,
                         !.AllocCPUS = ac, !.Elapsed = el, !.TotalCPU = tc,
                         !.UserCPU = uc, !.QOS = qa[1], !.Account = qa[2]] :
        p \in {"pd", "ps", "px"},
        nl \in {<<"n1">>, <<"n1", "n2">>, <<"n2", "n3">>},
        nn \in {0, 1, 2}, ac \in {1, 2, 3}, el \in {0, HOUR},
        tc \in {0, HOUR, 3 * HOUR}, uc \in {0, 4 * HOUR},
        qa \in {<<"normal", "a1">>, <<"high", "a2">>, <<"qx", "a1">>,
                <<"normal", "ax">>}}

\* A duration two of which overflow timedelta.max.
LongTime == TimedeltaMax \div 2 + HOUR

\* Parent steps of different groups, of no duration, and of durations
\* whose sums overflow.
StatsPool ==
    {DefaultStep,
     [DefaultStep EXCEPT !.Account = "a2", !.User = "u2",
                         !.Submit = DAY + 2 * HOUR, !.End = 2 * DAY + HOUR,
                         !.Timelimit = TimedeltaMax],
     [DefaultStep EXCEPT !.Elapsed = 0, !.TotalCPU = 0, !.UserCPU = 0,
                         !.CPUTime = 0],
     [DefaultStep EXCEPT !.Elapsed = LongTime, !.CPUTime = LongTime,
                         !.Timelimit = TimedeltaMax]}

\* 1-hour jobs of 8 CPUs on one node of the second topology, and one of 16
\* CPUs on both nodes.
EightPool ==
    {[DefaultStep EXCEPT !.Start = DAY + a * HOUR, !.End = DAY + (a + 1) * HOUR,
                         !.NodeList = nl, !.NNodes = Len(nl),
                         !.ReqCPUS = 8 * Len(nl), !.AllocCPUS = 8 * Len(nl),
                         !.NCPUS = 8 * Len(nl), !.CPUTime = 8 * Len(nl) * HOUR,
                         !.MaxRSSNode = nl[1], !.MaxVMSizeNode = nl[1]] :
        a \in 0..2,
        nl \in {<<"m1">>, <<"m2">>}}
    \cup
    {[DefaultStep EXCEPT !.NodeList = <<"m1", "m2">>, !.NNodes = 2,
                         !.ReqCPUS = 16, !.AllocCPUS = 16, !.NCPUS = 16,
                         !.CPUTime = 16 * HOUR,
                         !.MaxRSSNode = "m1", !.MaxVMSizeNode = "m1"]}

\* A job of the timeline sweep from the instant a to the instant b, hours
\* after the start of the window: the later it starts, the more CPUs it
\* has, and only a job that starts at once runs on one node.
EventsJob(a, b) ==
    [DefaultStep EXCEPT !.Start = DAY + a * HOUR, !.End = DAY + b * HOUR,
                        !.Elapsed = IF a < b THEN (b - a) * HOUR ELSE 0,
                        !.AllocCPUS = a + 1, !.NCPUS = a + 1,
                        !.NNodes = IF a = 0 THEN 1 ELSE 2,
                        !.NodeList = IF a = 0 THEN <<"n1">> ELSE <<"n1", "n2">>]

\* Jobs for the timeline sweep: every interval over four instants an hour
\* apart, one job that ends when it starts, and one that ends before.
EventsPool ==
    {EventsJob(a, b) : a \in 0..2, b \in 1..3} \ {EventsJob(2, 2)}

\* The filters of a report: none, on base groups, with an empty allow-list,
\* on derived groups, and on a key that is no group.
FilterPool ==
    {[group \in {} |-> {}],
     [group \in {"Account"} |-> {"a1"}],
     [group \in {"Account", "User"} |-> IF group = "User" THEN {"u1"} ELSE {"a1", "a2"}],
     [group \in {"User"} |-> {}],
     [group \in {"SubmitYear"} |-> {2016}],
     [group \in {"EndDay"} |-> {2}],
     [group \in {"JobName"} |-> {"x"}]}

\* All lists of at most MaxSteps steps of a pool.
StepLists(pool) == UNION {[1..n -> pool] : n \in 0..MaxSteps}

\* The same, the k-th step being the parent step of job k.
ParentLists(pool) ==
    {[k \in DOMAIN f |-> [f[k] EXCEPT !.JobID = <<k>>]] : f \in StepLists(pool)}

-----------------------------------------------------------------------------
(* exp_cpulist: the CPUs a job ran on, one entry (a node name) per CPU.    *)

\* Mutant of DedicatedCpus: one CPU for each node, whatever its PPN.
RECURSIVE DedicatedOneCpu(_, _)
DedicatedOneCpu(nodelist, nodes_conf) ==
    IF nodelist = <<>> THEN <<>>
    ELSE LET node == Head(nodelist)
         IN  (IF node \in DOMAIN nodes_conf THEN <<nodes_conf[node].Name>> ELSE <<>>)
             \o DedicatedOneCpu(Tail(nodelist), nodes_conf)

\* for node in NodeList: cpulist += [nodes_conf[node]['Name']] *
\* nodes_conf[node]['PPN'], an undefined node (KeyError) being skipped.
RECURSIVE DedicatedCpus(_, _)
DedicatedCpus(nodelist, nodes_conf) ==
    IF nodelist = <<>> THEN <<>>
    ELSE LET node == Head(nodelist)
         IN  (IF node \in DOMAIN nodes_conf
                 THEN Repeat(nodes_conf[node].Name, nodes_conf[node].PPN)
                 ELSE <<>>)
             \o DedicatedCpus(Tail(nodelist), nodes_conf)

\* for node in NodeList: cpulist += [nodes_conf[node]['Name']] * ppn
RECURSIVE EvenCpus(_, _, _)
EvenCpus(nodelist, nodes_conf, ppn) ==
    IF nodelist = <<>> THEN <<>>
    ELSE LET node == Head(nodelist)
         IN  (IF node \in DOMAIN nodes_conf
                 THEN Repeat(nodes_conf[node].Name, ppn)
                 ELSE <<>>)
             \o EvenCpus(Tail(nodelist), nodes_conf, ppn)

\* while cpus < AllocCPUS: one pass over the whole NodeList, in which cpus
\* is incremented for every node before the node is looked up.
RECURSIVE CyclicCpus(_, _, _, _)
CyclicCpus(job, nodes_conf, cpus, cpulist) ==
    IF cpus < job.AllocCPUS
        THEN CyclicCpus(job, nodes_conf, cpus + Len(job.NodeList),
                        cpulist \o EvenCpus(job.NodeList, nodes_conf, 1))
        ELSE cpulist

\* Mutant of exp_cpulist: every partition is taken as shared.
ExpCpulistAsShared(job, nodes_conf, shared) ==
    IF job.NNodes # 0 THEN
        IF job.AllocCPUS % job.NNodes = 0
            THEN EvenCpus(job.NodeList, nodes_conf, job.AllocCPUS \div job.NNodes)
            ELSE CyclicCpus(job, nodes_conf, 0, <<>>)
    ELSE <<>>

exp_cpulist(job, nodes_conf, shared) ==
    IF ~shared THEN DedicatedCpus(job.NodeList, nodes_conf)
    ELSE IF job.NNodes # 0 THEN
        IF job.AllocCPUS % job.NNodes = 0
            THEN EvenCpus(job.NodeList, nodes_conf, job.AllocCPUS \div job.NNodes)
            ELSE CyclicCpus(job, nodes_conf, 0, <<>>)
    ELSE <<>>

-----------------------------------------------------------------------------
(* Job: data (the fields), steps (the owned steps), and oid, the identity  *)
(* of the Python object (Job defines no equality, so == is identity).      *)
(* CPUList keeps PopData's local cpulist for the properties to read.       *)

Job(oid) == [steps |-> <<>>, oid |-> oid]

\* self[key] = value
SetItem(self, key, value) == (key :> value) @@ self

\* float(var), 0. when var is not numeric
ToFloat(var) == IF var.kind = "float" THEN var.v ELSE 0

\* Mutant of cmp_float: True also when the two values are equal.
CmpFloatNotLess(var1, var2) == ToFloat(var1) >= ToFloat(var2)

\* True if float(var1) > float(var2), a value float() refuses counting as 0.
cmp_float(var1, var2) == ToFloat(var1) > ToFloat(var2)

StorageFields ==
    {"AveDiskRead", "AveDiskWrite", "AveRSS", "AveVMSize",
     "MaxDiskRead", "MaxDiskWrite", "MaxRSS", "MaxVMSize"}

\* Mutant of ServUnitsOf: the charge modifiers of the nodes are left out.
ServUnitsNoModifier(elapsed, cpulist, nodes_conf) == elapsed * Len(cpulist)

\* total_seconds(Elapsed) * sum(nodes_conf[node]['Modifier'] for node in cpulist)
ServUnitsOf(elapsed, cpulist, nodes_conf) ==
    elapsed * SumSeq([k \in 1..Len(cpulist) |-> nodes_conf[cpulist[k]].Modifier])

\* Mutant of Efficiency: a ratio above 1.0 is cut to 1.0.
EfficiencyCapped(x, y) ==
    IF y = 0 THEN RatInt(0) ELSE IF x > y THEN RatInt(1) ELSE Rat(x, y)

\* total_seconds(x) / total_seconds(y), 0. on ZeroDivisionError; a value
\* above 1.0 is only warned about.
Efficiency(x, y) == IF y = 0 THEN RatInt(0) ELSE Rat(x, y)

\* Mutant of ChargeOf: a QOS that is not defined charges as modifier 1.
ChargeUnknownQOS(self, servunits, parts_conf, qoss_conf, accts_conf) ==
    IF /\ self.Partition \in DOMAIN parts_conf
       /\ self.Account \in DOMAIN accts_conf
        THEN Rat(servunits * parts_conf[self.Partition].Modifier
                           * (IF self.QOS \in DOMAIN qoss_conf
                                  THEN qoss_conf[self.QOS].Modifier ELSE 1)
                           * accts_conf[self.Account].Modifier, HOUR)
        ELSE RatInt(0)

\* total_seconds(ServUnits) / HOUR times the modifiers of the partition, the
\* QOS and the account; 0. on the KeyError of any of the three lookups.
ChargeOf(self, servunits, parts_conf, qoss_conf, accts_conf) ==
    IF /\ self.Partition \in DOMAIN parts_conf
       /\ self.QOS \in DOMAIN qoss_conf
       /\ self.Account \in DOMAIN accts_conf
        THEN Rat(servunits * parts_conf[self.Partition].Modifier
                           * qoss_conf[self.QOS].Modifier
                           * accts_conf[self.Account].Modifier, HOUR)
        ELSE RatInt(0)

\* PopData, the branch of the parent step (self['JobID'] == step['JobID']).
PopDataParent(self, step, parts_conf, qoss_conf, nodes_conf, accts_conf) ==
    LET seeded == [key \in JobCommonFields |-> step[key]] @@ self
        havePart == seeded.Partition \in DOMAIN parts_conf
        cpulist == IF havePart
                      THEN exp_cpulist(seeded, nodes_conf,
                                       parts_conf[seeded.Partition].Shared)
                      ELSE <<>>
        division == IF seeded.Account \in DOMAIN accts_conf
                       THEN accts_conf[seeded.Account].Division
                       ELSE "UNKNOWN"
        nodetime == seeded.Elapsed * Len(cpulist)
        servunits == ServUnitsOf(seeded.Elapsed, cpulist, nodes_conf)
        charge == ChargeOf(seeded, servunits, parts_conf, qoss_conf, accts_conf)
        efft == Efficiency(seeded.TotalCPU, nodetime)
        effu == Efficiency(seeded.UserCPU, seeded.TotalCPU)
        energy == RatSumSeq([k \in 1..Len(cpulist) |->
                      RatMul(Rat(nodes_conf[cpulist[k]].PowerPeak
                                 - nodes_conf[cpulist[k]].PowerIdle,
                                 nodes_conf[cpulist[k]].PPN), efft)])
        storage == [key \in StorageFields |->
                      IF seeded[key].kind # "float" THEN Num(0) ELSE seeded[key]]
        derived == [NSteps |-> 0, CPUList |-> cpulist, Division |-> division,
                    NodeTime |-> nodetime, ServUnits |-> servunits,
                    Charge |-> charge, EfficiencyT |-> efft,
                    EfficiencyU |-> effu, ConsumedEnergy |-> energy]
    IN  IF nodetime > TimedeltaMax \/ servunits > TimedeltaMax
            THEN [job |-> self, err |-> "OverflowError"]
            ELSE [job |-> derived @@ storage @@ seeded, err |-> "none"]

\* Mutant of PopDataChild: the step is folded but not counted in NSteps.
PopDataChildUncounted(self, step) ==
    LET ave == [key \in {"AveDiskRead", "AveDiskWrite", "AveRSS", "AveVMSize"} |->
                   IF cmp_float(step[key], self[key]) THEN step[key] ELSE self[key]]
        dr == cmp_float(step.MaxDiskRead, self.MaxDiskRead)
        dw == cmp_float(step.MaxDiskWrite, self.MaxDiskWrite)
        rss == cmp_float(step.MaxRSS, self.MaxRSS)
        vm == cmp_float(step.MaxVMSize, self.MaxVMSize)
        max == [MaxDiskRead |-> IF dr THEN step.MaxDiskRead ELSE self.MaxDiskRead,
                MaxDiskReadNode |-> IF dr THEN step.MaxDiskReadNode ELSE self.MaxDiskReadNode,
                MaxDiskWrite |-> IF dw THEN step.MaxDiskWrite ELSE self.MaxDiskWrite,
                MaxDiskWriteNode |-> IF dw THEN step.MaxDiskWriteNode ELSE self.MaxDiskWriteNode,
                MaxRSS |-> IF rss THEN step.MaxRSS ELSE self.MaxRSS,
                MaxRSSNode |-> IF rss THEN step.MaxRSSNode ELSE self.MaxRSSNode,
                MaxVMSize |-> IF vm THEN step.MaxVMSize ELSE self.MaxVMSize,
                MaxVMSizeNode |-> IF vm THEN step.MaxVMSizeNode ELSE self.MaxVMSizeNode]
    IN  [job |-> ave @@ max @@ self, err |-> "none"]

\* PopData, the branch of a child step.
PopDataChild(self, step) ==
    LET ave == [key \in {"AveDiskRead", "AveDiskWrite", "AveRSS", "AveVMSize"} |->
                   IF cmp_float(step[key], self[key]) THEN step[key] ELSE self[key]]
        dr == cmp_float(step.MaxDiskRead, self.MaxDiskRead)
        dw == cmp_float(step.MaxDiskWrite, self.MaxDiskWrite)
        rss == cmp_float(step.MaxRSS, self.MaxRSS)
        vm == cmp_float(step.MaxVMSize, self.MaxVMSize)
        max == [MaxDiskRead |-> IF dr THEN step.MaxDiskRead ELSE self.MaxDiskRead,
                MaxDiskReadNode |-> IF dr THEN step.MaxDiskReadNode ELSE self.MaxDiskReadNode,
                MaxDiskWrite |-> IF dw THEN step.MaxDiskWrite ELSE self.MaxDiskWrite,
                MaxDiskWriteNode |-> IF dw THEN step.MaxDiskWriteNode ELSE self.MaxDiskWriteNode,
                MaxRSS |-> IF rss THEN step.MaxRSS ELSE self.MaxRSS,
                MaxRSSNode |-> IF rss THEN step.MaxRSSNode ELSE self.MaxRSSNode,
                MaxVMSize |-> IF vm THEN step.MaxVMSize ELSE self.MaxVMSize,
                MaxVMSizeNode |-> IF vm THEN step.MaxVMSizeNode ELSE self.MaxVMSizeNode]
    IN  [job |-> [NSteps |-> self.NSteps + 1] @@ ave @@ max @@ self, err |-> "none"]

PopData(self, step, parts_conf, qoss_conf, nodes_conf, accts_conf) ==
    IF self.JobID = step.JobID
        THEN PopDataParent(self, step, parts_conf, qoss_conf, nodes_conf, accts_conf)
        ELSE PopDataChild(self, step)

\* The result is the job after the call and the exception raised, if any.
AddStep(self, step, parts_conf, qoss_conf, nodes_conf, accts_conf) ==
    IF "JobID" \notin DOMAIN self
        THEN PopData([SetItem(self, "JobID", JobIdPrefix(step.JobID))
                          EXCEPT !.steps = Append(@, step)],
                     step, parts_conf, qoss_conf, nodes_conf, accts_conf)
    ELSE IF self.JobID = JobIdPrefix(step.JobID) THEN
        IF /\ self.JobID = step.JobID
           /\ \/ self.JobName # step.JobName
              \/ self.User # step.User
              \/ self.Partition # step.Partition
            THEN [job |-> self, err |-> "ValueError"]
            ELSE PopData([self EXCEPT !.steps = Append(@, step)],
                         step, parts_conf, qoss_conf, nodes_conf, accts_conf)
    ELSE [job |-> self, err |-> "ValueError"]

-----------------------------------------------------------------------------
(* Cluster.CollectJobs, one iteration of its loop over Cluster['Steps'].   *)

Range(s) == {s[k] : k \in 1..Len(s)}

\* Mutant of CollectJobsBody: a child step of any job seen is added to the
\* last job, whichever job that is.
CollectJobsBodyAnyJob(jobs, ids, step, parts_conf, qoss_conf, nodes_conf, accts_conf) ==
    LET jobid == JobIdPrefix(step.JobID)
        r == AddStep(IF jobid = step.JobID THEN Job(Len(ids) + 1) ELSE jobs[Len(jobs)],
                     step, parts_conf, qoss_conf, nodes_conf, accts_conf)
    IN  IF jobid # step.JobID /\ jobid \notin Range(ids)
            THEN [Jobs |-> jobs, jobids |-> ids, err |-> "none"]
        ELSE IF r.err # "none"
            THEN [Jobs |-> jobs, jobids |-> ids, err |-> r.err]
        ELSE IF jobid = step.JobID
            THEN [Jobs |-> Append(jobs, r.job), jobids |-> Append(ids, jobid),
                  err |-> "none"]
        ELSE [Jobs |-> [jobs EXCEPT ![Len(jobs)] = r.job], jobids |-> ids,
              err |-> "none"]

\* The body of the loop for one step: the job list and the job ids after
\* it, and the exception raised, if any.
CollectJobsBody(jobs, ids, step, parts_conf, qoss_conf, nodes_conf, accts_conf) ==
    LET jobid == JobIdPrefix(step.JobID)
    IN  IF jobid = step.JobID THEN
            LET r == AddStep(Job(Len(ids) + 1), step,
                             parts_conf, qoss_conf, nodes_conf, accts_conf)
            IN  IF r.err = "none"
                    THEN [Jobs |-> Append(jobs, r.job), jobids |-> Append(ids, jobid),
                          err |-> "none"]
                    ELSE [Jobs |-> jobs, jobids |-> ids, err |-> r.err]
        ELSE IF jobid \in Range(ids) /\ jobid = jobs[Len(jobs)].JobID THEN
            LET r == AddStep(jobs[Len(jobs)], step,
                             parts_conf, qoss_conf, nodes_conf, accts_conf)
            IN  IF r.err = "none"
                    THEN [Jobs |-> [jobs EXCEPT ![Len(jobs)] = r.job], jobids |-> ids,
                          err |-> "none"]
                    ELSE [Jobs |-> jobs, jobids |-> ids, err |-> r.err]
        ELSE [Jobs |-> jobs, jobids |-> ids, err |-> "none"]

CollectJobs ==
    /\ pc = "CollectJobs"
    /\ i <= Len(Steps)
    /\ LET r == CollectJobsBody(Jobs, jobids, Steps[i],
                                Partitions, QOSs, Nodes, Accounts)
       IN  /\ Jobs' = r.Jobs
           /\ jobids' = r.jobids
           /\ err' = r.err
           /\ pc' = IF r.err = "none" THEN pc ELSE "failed"
           /\ i' = IF r.err = "none" THEN i + 1 ELSE i
    /\ UNCHANGED <<conf, Steps, JobStats, args, events, ret>>

-----------------------------------------------------------------------------
(* Cluster.PurgeJobs. *)

\* list.remove(x): the list without its first element equal to x.
RECURSIVE ListRemove(_, _)
ListRemove(list, x) ==
    IF list = <<>> THEN <<>>
    ELSE IF Head(list) = x THEN Tail(list)
    ELSE <<Head(list)>> \o ListRemove(Tail(list), x)

\* Mutant of Purged: a job that ends on a bound of the window is removed too.
PurgedOnBounds(job, parts_conf, accts_conf, nodes_conf, start, end) ==
    \/ job.Partition \notin DOMAIN parts_conf
    \/ job.Account \notin DOMAIN accts_conf
    \/ ~(Range(job.NodeList) \subseteq DOMAIN nodes_conf)
    \/ job.End <= start \/ job.End >= end

\* The four conditions under which PurgeJobs removes a job.
Purged(job, parts_conf, accts_conf, nodes_conf, start, end) ==
    \/ job.Partition \notin DOMAIN parts_conf
    \/ job.Account \notin DOMAIN accts_conf
    \/ ~(Range(job.NodeList) \subseteq DOMAIN nodes_conf)
    \/ job.End < start \/ job.End > end

\* for job in reversed(jobs): the reverse iterator holds the index k of the
\* next element and stops when k is outside the list as it is then.
RECURSIVE PurgeReversed(_, _, _, _, _, _, _)
PurgeReversed(jobs, k, parts_conf, accts_conf, nodes_conf, start, end) ==
    IF k < 1 \/ k > Len(jobs) THEN jobs
    ELSE IF Purged(jobs[k], parts_conf, accts_conf, nodes_conf, start, end)
        THEN PurgeReversed(ListRemove(jobs, jobs[k]), k - 1,
                           parts_conf, accts_conf, nodes_conf, start, end)
        ELSE PurgeReversed(jobs, k - 1, parts_conf, accts_conf, nodes_conf, start, end)

\* Mutant of PurgeJobsResult: the list is walked forwards while it shrinks.
RECURSIVE PurgeForward(_, _, _, _, _, _, _)
PurgeForward(jobs, k, parts_conf, accts_conf, nodes_conf, start, end) ==
    IF k > Len(jobs) THEN jobs
    ELSE IF Purged(jobs[k], parts_conf, accts_conf, nodes_conf, start, end)
        THEN PurgeForward(ListRemove(jobs, jobs[k]), k + 1,
                          parts_conf, accts_conf, nodes_conf, start, end)
        ELSE PurgeForward(jobs, k + 1, parts_conf, accts_conf, nodes_conf, start, end)

PurgeJobsForward(jobs, parts_conf, accts_conf, nodes_conf, start, end) ==
    PurgeForward(jobs, 1, parts_conf, accts_conf, nodes_conf, start, end)

PurgeJobsResult(jobs, parts_conf, accts_conf, nodes_conf, start, end) ==
    PurgeReversed(jobs, Len(jobs), parts_conf, accts_conf, nodes_conf, start, end)

PurgeJobs ==
    /\ pc = "CollectJobs"
    /\ i > Len(Steps)
    /\ Jobs' = PurgeJobsResult(Jobs, Partitions, Accounts, Nodes, Start, End)
    /\ pc' = "CollectStats"
    /\ UNCHANGED <<conf, Steps, jobids, i, JobStats, args, events, ret, err>>

-----------------------------------------------------------------------------
(* JobStats. *)

GroupBase ==
    {"Cluster", "Partition", "QOS", "Division", "Group", "Account", "User",
     "State", "ExitCode", "JobID"}

GroupExt1 == {"Submit", "End"}
GroupExt2 == {"Year", "Month", "Day", "Hour", "Date", "Weekday", "Week"}

\* group1 + group2 for every derived group of JobStats.GroupExt.
GroupExtParts ==
    ("SubmitYear" :> <<"Submit", "Year">>) @@ ("SubmitMonth" :> <<"Submit", "Month">>) @@
    ("SubmitDay" :> <<"Submit", "Day">>) @@ ("SubmitHour" :> <<"Submit", "Hour">>) @@
    ("SubmitDate" :> <<"Submit", "Date">>) @@ ("SubmitWeekday" :> <<"Submit", "Weekday">>) @@
    ("SubmitWeek" :> <<"Submit", "Week">>) @@
    ("EndYear" :> <<"End", "Year">>) @@ ("EndMonth" :> <<"End", "Month">>) @@
    ("EndDay" :> <<"End", "Day">>) @@ ("EndHour" :> <<"End", "Hour">>) @@
    ("EndDate" :> <<"End", "Date">>) @@ ("EndWeekday" :> <<"End", "Weekday">>) @@
    ("EndWeek" :> <<"End", "Week">>)

GroupExt == DOMAIN GroupExtParts

AllGroups == GroupBase \cup GroupExt

Resources ==
    {"NumJobs", "Charge", "ServUnits", "SUPer", "NodeTime", "NTPer", "CPUTime",
     "CTPer", "TotalCPU", "SystemCPU", "UserCPU", "EfficiencyT", "EfficiencyU",
     "Timelimit", "Elapsed", "Reserved", "ReqCPUS", "AllocCPUS", "AveDiskRead",
     "AveDiskWrite", "AveRSS", "AveVMSize", "NSteps", "JobID", "JobIndex"}

\* The resources CollectStats leaves unset.
UnsetResources == {"SUPer", "NTPer", "CTPer", "EfficiencyT", "EfficiencyU"}

\* The resources whose sum CollectStats guards against OverflowError.
TimedeltaFields ==
    {"CPUTime", "Elapsed", "NodeTime", "Reserved", "SystemCPU", "Timelimit",
     "TotalCPU", "UserCPU"}

AveStorage == {"AveDiskRead", "AveDiskWrite", "AveRSS", "AveVMSize"}

\* Job.Fields: the keys Job.__getitem__ accepts.
JobFields ==
    JobCommonFields \cup
    {"ServUnits", "Charge", "Division", "NSteps", "NodeTime", "EfficiencyT",
     "EfficiencyU"}

\* datetime.strftime for the formats of CollectStats: %Y, %m, %d, %H,
\* %Y-%m-%d, %w-%a and %U, on a timestamp t of January 2016.
strftime(t, group2) ==
    LET yday == t \div DAY
        wday == (5 + yday) % 7
    IN  CASE group2 = "Year" -> 2016
          [] group2 = "Month" -> 1
          [] group2 = "Day" -> yday + 1
          [] group2 = "Hour" -> (t % DAY) \div HOUR
          [] group2 = "Date" -> <<2016, 1, yday + 1>>
          [] group2 = "Weekday" -> wday
          [] group2 = "Week" -> (yday + 7 - wday) \div 7

\* The key of a job in a group.
GroupKey(job, group) ==
    IF group \in GroupBase THEN job[group]
    ELSE strftime(job[GroupExtParts[group][1]], GroupExtParts[group][2])

\* The accumulator of a key that a job opens.
NewAcc(job, index) ==
    [res \in Resources \ UnsetResources |->
        CASE res = "NumJobs" -> 1
          [] res = "JobID" -> <<job.JobID>>
          [] res = "JobIndex" -> <<index>>
          [] OTHER -> job[res]]

\* Mutant of AddAcc: the job count of the key is not incremented.
AddAccNoCount(acc, job, index) ==
    [res \in DOMAIN acc |->
        CASE res = "NumJobs" -> acc[res]
          [] res = "JobID" -> acc[res] \o <<job.JobID>>
          [] res = "JobIndex" -> acc[res] \o <<index>>
          [] res = "Charge" -> RatAdd(acc[res], job[res])
          [] res \in AveStorage -> Num(acc[res].v + job[res].v)
          [] OTHER -> IF acc[res] + job[res] > TimedeltaMax THEN TimedeltaMax
                      ELSE acc[res] + job[res]]

\* The accumulator of a key after one more job.
AddAcc(acc, job, index) ==
    [res \in DOMAIN acc |->
        CASE res = "NumJobs" -> acc[res] + 1
          [] res = "JobID" -> acc[res] \o <<job.JobID>>
          [] res = "JobIndex" -> acc[res] \o <<index>>
          [] res \in TimedeltaFields ->
                IF acc[res] + job[res] > TimedeltaMax THEN TimedeltaMax
                ELSE acc[res] + job[res]
          [] res = "Charge" -> RatAdd(acc[res], job[res])
          [] res \in AveStorage -> Num(acc[res].v + job[res].v)
          [] OTHER -> acc[res] + job[res]]

\* The sums that raise OverflowError: the timedelta ServUnits is added
\* outside the try block.
AddAccRaises(acc, job) == acc.ServUnits + job.ServUnits > TimedeltaMax

\* self[group] after one job.
AddToGroup(gdata, key, job, index) ==
    IF key \in DOMAIN gdata
        THEN [gdata EXCEPT ![key] = AddAcc(@, job, index)]
        ELSE (key :> NewAcc(job, index)) @@ gdata

\* job[group] in filter[group] for every group of the filter.
Match(job, filter) == \A group \in DOMAIN filter : job[group] \in filter[group]

\* The loop of CollectStats over the jobs, from the k-th on.
RECURSIVE CollectStatsLoop(_, _, _, _)
CollectStatsLoop(jobs, filter, k, data) ==
    IF k > Len(jobs) THEN [data |-> data, err |-> "none"]
    ELSE LET job == jobs[k]
         IN  IF \E group \in DOMAIN filter : group \notin JobFields
                 THEN [data |-> data, err |-> "KeyError"]
             ELSE IF ~Match(job, filter)
                 THEN CollectStatsLoop(jobs, filter, k + 1, data)
             ELSE IF \E group \in AllGroups :
                        /\ GroupKey(job, group) \in DOMAIN data[group]
                        /\ AddAccRaises(data[group][GroupKey(job, group)], job)
                 THEN [data |-> data, err |-> "OverflowError"]
             ELSE CollectStatsLoop(jobs, filter, k + 1,
                      [group \in AllGroups |->
                          AddToGroup(data[group], GroupKey(job, group), job, k - 1)])

CollectStatsResult(jobs, filter) ==
    IF \E group \in DOMAIN filter : group \notin AllGroups
        THEN [data |-> <<>>, err |-> "KeyError"]
        ELSE CollectStatsLoop(jobs, filter, 1, [group \in AllGroups |-> <<>>])

\* Mutant of Percent: no fallback to the total over the group.
PercentNoFallback(x, denominator, total) ==
    IF denominator # 0 THEN Rat(x * 100, denominator) ELSE RatInt(0)

\* x / denominator * 100., with the fallback to the total over the group.
Percent(x, denominator, total) ==
    IF denominator # 0 THEN Rat(x * 100, denominator)
    ELSE IF total # 0 THEN Rat(x * 100, total)
    ELSE RatInt(0)

\* x / y * 100., 0. on ZeroDivisionError.
Ratio100(x, y) == IF y = 0 THEN RatInt(0) ELSE Rat(x * 100, y)

\* 999999.99
Sentinel == Rat(99999999, 100)

GroupTotal(gdata, res) == SumFn([key \in DOMAIN gdata |-> gdata[key][res]])

\* The accumulator of a key after NormStats.
NormAcc(gdata, key, ServUnits, CPUTime) ==
    LET acc == gdata[key]
        per == [SUPer |-> Percent(acc.ServUnits, ServUnits, GroupTotal(gdata, "ServUnits")),
                NTPer |-> Percent(acc.NodeTime, CPUTime, GroupTotal(gdata, "NodeTime")),
                CTPer |-> Percent(acc.CPUTime, CPUTime, GroupTotal(gdata, "CPUTime")),
                EfficiencyT |-> Ratio100(acc.TotalCPU, acc.NodeTime),
                EfficiencyU |-> Ratio100(acc.UserCPU, acc.TotalCPU)]
        rest == [res \in DOMAIN acc |->
                    CASE res \in {"NumJobs", "Charge", "JobIndex"} -> acc[res]
                      [] res = "JobID" ->
                            SortSeq(acc[res], LAMBDA a, b : a[1] < b[1])
                      [] res \in {"ServUnits", "NodeTime", "CPUTime"} ->
                            IF acc[res] # TimedeltaMax THEN Rat(acc[res], HOUR)
                            ELSE Sentinel
                      [] res \in {"TotalCPU", "SystemCPU", "UserCPU", "Timelimit",
                                  "Elapsed", "Reserved"} ->
                            IF acc[res] # TimedeltaMax
                                THEN Rat(acc[res], HOUR * acc.NumJobs)
                                ELSE Sentinel
                      [] res \in AveStorage -> Rat(acc[res].v, MB * acc.NumJobs)
                      [] OTHER -> Rat(acc[res], acc.NumJobs)]
    IN  per @@ rest

\* The fallback sums (timesum += ...) that raise OverflowError.
NormRaises(gdata, ServUnits, CPUTime) ==
    /\ DOMAIN gdata # {}
    /\ \/ ServUnits = 0 /\ GroupTotal(gdata, "ServUnits") > TimedeltaMax
       \/ CPUTime = 0 /\ GroupTotal(gdata, "NodeTime") > TimedeltaMax
       \/ CPUTime = 0 /\ GroupTotal(gdata, "CPUTime") > TimedeltaMax

NormStatsResult(data, ServUnits, CPUTime) ==
    IF \E group \in AllGroups : NormRaises(data[group], ServUnits, CPUTime)
        THEN [data |-> data, err |-> "OverflowError"]
        ELSE [data |-> [group \in AllGroups |->
                           [key \in DOMAIN data[group] |->
                               NormAcc(data[group], key, ServUnits, CPUTime)]],
              err |-> "none"]

\* JobStats(jobs, ServUnits, CPUTime, filter): CollectStats.
JobStatsCollect(a) ==
    /\ pc = "CollectStats"
    /\ LET r == CollectStatsResult(Jobs, a.filter)
       IN  /\ JobStats' = IF r.err = "none" THEN r.data ELSE JobStats
           /\ err' = r.err
           /\ pc' = IF r.err = "none" THEN "NormStats" ELSE "failed"
    /\ args' = a
    /\ UNCHANGED <<conf, Steps, Jobs, jobids, i, events, ret>>

\* Cluster.CollectStats: JobStats(Jobs, ServUnits, CPUTime), no filter.
CollectStats ==
    JobStatsCollect([filter |-> <<>>, ServUnits |-> ClusterServUnits,
                     CPUTime |-> ClusterCPUTime])

\* JobStats(jobs, ServUnits, CPUTime, filter) called by a report.
FilteredCollectStats ==
    \E filter \in FilterPool, total \in BOOLEAN :
        JobStatsCollect([filter |-> filter,
                         ServUnits |-> IF total THEN ClusterServUnits ELSE 0,
                         CPUTime |-> IF total THEN ClusterCPUTime ELSE 0])

\* JobStats(jobs, ServUnits, CPUTime, filter): NormStats.
NormStats ==
    /\ pc = "NormStats"
    /\ LET r == NormStatsResult(JobStats, args.ServUnits, args.CPUTime)
       IN  /\ JobStats' = r.data
           /\ err' = r.err
           /\ pc' = IF r.err = "none" THEN "done" ELSE "failed"
    /\ UNCHANGED <<conf, Steps, Jobs, jobids, i, args, events, ret>>

-----------------------------------------------------------------------------
(* JobStats.CollectEvents and JobStats.NormEvents: the timeline sweep.     *)

Event(timestamp, event, index) ==
    [Timestamp |-> timestamp, Event |-> event, Index |-> index]

\* Mutant of EventKeyLE: the key is the timestamp alone.
EventKeyTimestamp(a, b) == a.Timestamp <= b.Timestamp

\* key=lambda event: (event['Timestamp'], event['Event']), compared as tuples.
EventKeyLE(a, b) ==
    \/ a.Timestamp < b.Timestamp
    \/ a.Timestamp = b.Timestamp /\ a.Event <= b.Event

\* One step of the stable sort: e goes behind every event whose key is not
\* above its own.
SortInsert(sorted, e) ==
    LET n == Cardinality({k \in 1..Len(sorted) : EventKeyLE(sorted[k], e)})
    IN  SubSeq(sorted, 1, n) \o <<e>> \o SubSeq(sorted, n + 1, Len(sorted))

\* events.sort(key=...): stable, so events of one key keep their order.
RECURSIVE SortEvents(_, _)
SortEvents(list, sorted) ==
    IF list = <<>> THEN sorted
    ELSE SortEvents(Tail(list), SortInsert(sorted, Head(list)))

\* Mutant of AppendEvents: the events of every job, whatever its Start and
\* its End.
RECURSIVE AppendEventsOfAll(_, _, _)
AppendEventsOfAll(list, jobs, k) ==
    IF k > Len(jobs) THEN list
    ELSE AppendEventsOfAll(list \o <<Event(jobs[k].Start, EVENT_START, k - 1),
                                      Event(jobs[k].End, EVENT_END, k - 1)>>,
                           jobs, k + 1)

\* The START and END events appended for the jobs from the k-th on.
RECURSIVE AppendEvents(_, _, _)
AppendEvents(list, jobs, k) ==
    IF k > Len(jobs) THEN list
    ELSE IF jobs[k].Start < jobs[k].End
        THEN AppendEvents(list \o <<Event(jobs[k].Start, EVENT_START, k - 1),
                                    Event(jobs[k].End, EVENT_END, k - 1)>>,
                          jobs, k + 1)
        ELSE AppendEvents(list, jobs, k + 1)

\* Mutant of CollectEventsResult: the events are left unsorted.
CollectEventsUnsorted(list, jobs) == AppendEvents(list, jobs, 1)

CollectEventsResult(list, jobs) == SortEvents(AppendEvents(list, jobs, 1), <<>>)

\* Mutant of EventNNodes: the length of the list, a node counted for every
\* job that names it.
EventNNodesListed(indices, jobs) ==
    SumSeq([k \in 1..Len(indices) |-> Len(jobs[indices[k] + 1].NodeList)])

\* len(set(nodelist)) over the jobs of the indices.
EventNNodes(indices, jobs) ==
    Cardinality(UNION {Range(jobs[indices[k] + 1].NodeList) : k \in 1..Len(indices)})

\* The i-th event (1-based) after NormEvents, prev being the event before it
\* as normalised.
NormEvent(e, prev, first, jobs) ==
    LET job == jobs[e.Index + 1]
        ecpus == RatMul(RatInt(job.AllocCPUS), job.EfficiencyT)
        sums ==
            IF e.Event = EVENT_START
                THEN IF ~first
                    THEN [Indices |-> Append(prev.Indices, e.Index),
                          NJobs |-> prev.NJobs + 1,
                          NCPUs |-> prev.NCPUs + job.AllocCPUS,
                          ECPUs |-> RatAdd(prev.ECPUs, ecpus),
                          Power |-> RatAdd(prev.Power, job.ConsumedEnergy)]
                    ELSE [Indices |-> <<e.Index>>,
                          NJobs |-> 1,
                          NCPUs |-> job.AllocCPUS,
                          ECPUs |-> ecpus,
                          Power |-> job.ConsumedEnergy]
                ELSE [Indices |-> ListRemove(prev.Indices, e.Index),
                      NJobs |-> prev.NJobs - 1,
                      NCPUs |-> prev.NCPUs - job.AllocCPUS,
                      ECPUs |-> RatAdd(prev.ECPUs, RatNeg(ecpus)),
                      Power |-> RatAdd(prev.Power, RatNeg(job.ConsumedEnergy))]
    IN  e @@ sums @@ [NNodes |-> EventNNodes(sums.Indices, jobs)]

\* for i in range(len(events)): the events normalised from the k-th on.
RECURSIVE NormEventsLoop(_, _, _)
NormEventsLoop(list, jobs, k) ==
    IF k > Len(list) THEN list
    ELSE NormEventsLoop(
            [list EXCEPT ![k] = NormEvent(list[k], IF k = 1 THEN list[k] ELSE list[k - 1],
                                          k = 1, jobs)],
            jobs, k + 1)

NormEventsResult(list, jobs) == NormEventsLoop(list, jobs, 1)

\* events = self.CollectEvents([], jobs), for the usage chart of a report.
CollectEvents ==
    /\ pc = "done"
    /\ events' = CollectEventsResult(<<>>, Jobs)
    /\ pc' = "NormEvents"
    /\ UNCHANGED <<conf, Steps, Jobs, jobids, i, JobStats, args, ret, err>>

\* events = self.NormEvents(events, jobs)
NormEvents ==
    /\ pc = "NormEvents"
    /\ events' = NormEventsResult(events, Jobs)
    /\ pc' = "charted"
    /\ UNCHANGED <<conf, Steps, Jobs, jobids, i, JobStats, args, ret, err>>

-----------------------------------------------------------------------------
(* Strings, as sequences of characters, and the str methods the range      *)
(* expansion uses.                                                         *)

Digit == <<"0", "1", "2", "3", "4", "5", "6", "7", "8", "9">>

IsDigit(c) == c \in Range(Digit)

DigitValue(c) == CHOOSE k \in 0..9 : Digit[k + 1] = c

\* \w of the regular expressions, over the letters of the model.
WordChars == Range(Digit) \cup {"n", "c", "x", "_"}

\* str.split(sep) for a separator of one character.
RECURSIVE Split(_, _)
Split(str, sep) ==
    IF \A k \in 1..Len(str) : str[k] # sep THEN <<str>>
    ELSE LET k == CHOOSE m \in 1..Len(str) :
                    str[m] = sep /\ \A n \in 1..(m - 1) : str[n] # sep
         IN  <<SubSeq(str, 1, k - 1)>> \o Split(SubSeq(str, k + 1, Len(str)), sep)

\* str.strip()
RECURSIVE Strip(_)
Strip(str) ==
    IF str = <<>> THEN str
    ELSE IF Head(str) = " " THEN Strip(Tail(str))
    ELSE IF str[Len(str)] = " " THEN Strip(SubSeq(str, 1, Len(str) - 1))
    ELSE str

\* sep.join(list)
RECURSIVE Join(_, _)
Join(list, sep) ==
    IF list = <<>> THEN <<>>
    ELSE IF Len(list) = 1 THEN Head(list)
    ELSE Head(list) \o <<sep>> \o Join(Tail(list), sep)

\* int(str) raises no ValueError: digits, with blanks around them.
IsInt(str) ==
    LET t == Strip(str)
    IN  t # <<>> /\ \A k \in 1..Len(t) : IsDigit(t[k])

\* int(str), for a string that has a value.
RECURSIVE IntOfDigits(_)
IntOfDigits(t) ==
    IF t = <<>> THEN 0
    ELSE 10 * IntOfDigits(SubSeq(t, 1, Len(t) - 1)) + DigitValue(t[Len(t)])

int(str) == IntOfDigits(Strip(str))

\* '%d' % i, for i >= 0.
RECURSIVE Decimal(_)
Decimal(n) ==
    IF n < 10 THEN <<Digit[n + 1]>>
    ELSE Decimal(n \div 10) \o <<Digit[(n % 10) + 1]>>

\* '%0*d' % (maxlen, i): zeros in front up to the width maxlen.
ZeroPadded(maxlen, n) == Repeat("0", maxlen - Len(Decimal(n))) \o Decimal(n)

\* The elements of a set of integers, ascending.
RECURSIVE Ascending(_)
Ascending(set) ==
    IF set = {} THEN <<>>
    ELSE LET m == CHOOSE x \in set : \A y \in set : x <= y
         IN  <<m>> \o Ascending(set \ {m})

-----------------------------------------------------------------------------
(* exp_range, exp_rangestr, exp_noderangestr.                              *)

\* x = part.split('-') of every part of rng.split(',').
RangeParts(rng) == [k \in DOMAIN Split(rng, ",") |-> Split(Split(rng, ",")[k], "-")]

\* Mutant of RangeStart: the first bound, whatever the order.
RangeStartFirst(x) == int(x[1])

\* start and end of a part: "Handles reverse order as well."
RangeStart(x) == IF int(x[1]) < int(x[Len(x)]) THEN int(x[1]) ELSE int(x[Len(x)])

RangeEnd(x) == IF int(x[1]) < int(x[Len(x)]) THEN int(x[Len(x)]) ELSE int(x[1])

\* Mutant of MaxLen: the greatest width, whatever the others are.
MaxLenGreatest(strlen) == CHOOSE n \in strlen : \A m \in strlen : m <= n

\* maxlen: 0 if len(set(strlen)) > 1, else max(strlen).
MaxLen(strlen) == IF Cardinality(strlen) > 1 THEN 0 ELSE CHOOSE n \in strlen : TRUE

\* exp_range(rng): the entries, or the ValueError of int().  The list is
\* built from a set of integers in the iteration order of the set; the model
\* lists the entries ascending.
exp_range(rng) ==
    LET parts == RangeParts(rng)
        result == UNION {RangeStart(parts[k])..RangeEnd(parts[k]) : k \in DOMAIN parts}
        strlen == UNION {{Len(Strip(parts[k][m])) : m \in DOMAIN parts[k]} :
                            k \in DOMAIN parts}
    IN  IF \E k \in DOMAIN parts : ~IsInt(parts[k][1]) \/ ~IsInt(parts[k][Len(parts[k])])
            THEN [err |-> "ValueError", value |-> <<>>]
            ELSE [err |-> "none",
                  value |-> [k \in DOMAIN Ascending(result) |->
                                ZeroPadded(MaxLen(strlen), Ascending(result)[k])]]

\* The three character classes of r'([\w\-]*)\[([\d\s\-\,]+)\]([\.\w]*)'.
PrefixChars == WordChars \cup {"-"}
RepeatChars == Range(Digit) \cup {" ", "-", ","}
SuffixChars == WordChars \cup {"."}

\* The end of the longest run of characters of a class that starts at from:
\* the position of the first character behind it.
RECURSIVE RunEnd(_, _, _)
RunEnd(str, from, class) ==
    IF from <= Len(str) /\ str[from] \in class THEN RunEnd(str, from + 1, class)
    ELSE from

\* '[', one or more characters of the second class, ']' at position q.
GroupAt(str, q) ==
    /\ q <= Len(str)
    /\ str[q] = "["
    /\ RunEnd(str, q + 1, RepeatChars) > q + 1
    /\ RunEnd(str, q + 1, RepeatChars) <= Len(str)
    /\ str[RunEnd(str, q + 1, RepeatChars)] = "]"

\* The leftmost match of the expression at or behind from: its three groups
\* and the positions it covers, or found = FALSE.  Every character of the
\* first class in front of the '[' belongs to the match, as far back as from.
Search(str, from) ==
    LET Q == {q \in from..Len(str) : GroupAt(str, q)}
        q == CHOOSE x \in Q : \A y \in Q : x <= y
        a == CHOOSE x \in from..q :
                /\ \A k \in x..(q - 1) : str[k] \in PrefixChars
                /\ \A y \in from..(x - 1) : \E k \in y..(q - 1) : str[k] \notin PrefixChars
        e == RunEnd(str, q + 1, RepeatChars)
        z == RunEnd(str, e + 1, SuffixChars)
    IN  IF Q = {} THEN [found |-> FALSE]
        ELSE [found |-> TRUE, start |-> a, end |-> z,
              prefix |-> SubSeq(str, a, q - 1),
              repeat |-> SubSeq(str, q + 1, e - 1),
              suffix |-> SubSeq(str, e + 1, z - 1)]

\* exp_rangestr(var): ','.join of prefix + x + suffix for x in
\* exp_range(repeat).
exp_rangestr(var) ==
    Let(exp_range(var.repeat), LAMBDA repeat :
        IF repeat.err # "none" THEN [err |-> repeat.err, value |-> <<>>]
        ELSE [err |-> "none",
              value |-> Join([k \in DOMAIN repeat.value |->
                                var.prefix \o repeat.value[k] \o var.suffix], ",")])

\* re.sub(r'([\w\-]*)\[([\d\s\-\,]+)\]([\.\w]*)', exp_rangestr, var), from
\* the position from on: every match replaced, the rest kept as it is.
RECURSIVE ReSub(_, _)
ReSub(var, from) ==
    Let(Search(var, from), LAMBDA m :
        IF ~m.found THEN [err |-> "none", value |-> SubSeq(var, from, Len(var))]
        ELSE Let(exp_rangestr(m), LAMBDA r :
            IF r.err # "none" THEN r
            ELSE Let(ReSub(var, m.end), LAMBDA rest :
                IF rest.err # "none" THEN rest
                ELSE [err |-> "none",
                      value |-> SubSeq(var, from, m.start - 1)
                                    \o r.value \o rest.value])))

\* exp_noderangestr(var): re.sub(...).split(',')
exp_noderangestr(var) ==
    Let(ReSub(var, 1), LAMBDA r :
        IF r.err # "none" THEN r
        ELSE [err |-> "none", value |-> Split(r.value, ",")])

\* NormPartitions: nodelist = [x.strip() for x in re.sub(...).split(',')]
PartitionNodeList(var) ==
    Let(exp_noderangestr(var), LAMBDA r :
        IF r.err # "none" THEN r
        ELSE [err |-> "none", value |-> [k \in DOMAIN r.value |-> Strip(r.value[k])]])

\* The bounds of the range strings: the integers up to MaxEnd as printed,
\* plain and zero-padded to two digits, one with a blank in front, the empty
\* string and a letter.
RangeEnds ==
    {ZeroPadded(w, n) : n \in 0..MaxEnd, w \in {0, 2}}
        \cup {<<" ", "1">>, <<>>, <<"x">>}

\* Parts that are combined into range strings of two parts.
RangeSomeParts ==
    {<<"1", "-", "2">>, <<"2", "-", "1">>, <<"0", "1", "-", "0", "2">>,
     <<"1", "0", "-", "1", "1">>, <<"3">>, <<>>}

\* The range strings: "a", "a-b", "p,q", and two with three bounds.
RangePool ==
    RangeEnds
        \cup {a \o <<"-">> \o b : a \in RangeEnds, b \in RangeEnds}
        \cup {p \o <<",">> \o q : p \in RangeSomeParts, q \in RangeSomeParts}
        \cup {<<"1", "-", "5", "-", "3">>, <<"0", "1", "-", "5", "-", "0", "3">>}

\* The node range strings: a name with a range in brackets, well formed,
\* with a bracket missing, with a suffix, behind another name, and a name
\* without a range.
NodeRangePool ==
    {<<"n">> \o open \o rng \o close \o suffix :
        rng \in RangePool,
        open \in {<<"[">>},
        close \in {<<"]">>},
        suffix \in {<<>>, <<".", "c">>}}
        \cup {<<"n">> \o open \o rng \o close :
                rng \in RangeSomeParts \cup {<<"1", "-", "x">>},
                open \in {<<"[">>, <<>>},
                close \in {<<"]">>, <<>>}}
        \cup {<<"x", "1", ",", " ", "n", "[">> \o rng \o <<"]">> : rng \in RangeSomeParts}

\* exp_range(rng)
ExpRange ==
    /\ pc = "exp_range"
    /\ Let(exp_range(args.rng), LAMBDA r :
            /\ ret' = r.value
            /\ err' = r.err
            /\ pc' = IF r.err = "none" THEN "returned" ELSE "failed")
    /\ UNCHANGED <<conf, Steps, Jobs, jobids, i, JobStats, args, events>>

\* exp_noderangestr(var)
ExpNodeRangeStr ==
    /\ pc = "exp_noderangestr"
    /\ Let(exp_noderangestr(args.var), LAMBDA r :
            /\ ret' = r.value
            /\ err' = r.err
            /\ pc' = IF r.err = "none" THEN "returned" ELSE "failed")
    /\ UNCHANGED <<conf, Steps, Jobs, jobids, i, JobStats, args, events>>

\* The node list of a partition definition, as NormPartitions expands it.
ExpPartitionNodes ==
    /\ pc = "NormPartitions"
    /\ Let(PartitionNodeList(args.nodes), LAMBDA r :
            /\ ret' = r.value
            /\ err' = r.err
            /\ pc' = IF r.err = "none" THEN "returned" ELSE "failed")
    /\ UNCHANGED <<conf, Steps, Jobs, jobids, i, JobStats, args, events>>

-----------------------------------------------------------------------------
(* Cluster.ParseConfig.  A configuration is a function from its section    *)
(* names to the items of the section, a list of <<option, value>> in the   *)
(* order of the file.  An option name is the pair of its leading word and  *)
(* the rest, so that startswith(word) reads the first of the two; a value  *)
(* is the list of its colon-separated fields, stripped, the numbers as     *)
(* numbers and a node range as a string of characters.                     *)

\* The values of the options whose name starts with the word.
OptionsOf(items, word) ==
    LET sel == SelectSeq(items, LAMBDA x : x[1][1] = word)
    IN  [k \in DOMAIN sel |-> sel[k][2]]

\* NormPartitions(partstrlst): the partitions after the definitions, or the
\* error of the range expansion.
RECURSIVE NormPartitions(_, _)
NormPartitions(parts, partstrlst) ==
    IF partstrlst = <<>> THEN [err |-> "none", value |-> parts]
    ELSE LET tmp == Head(partstrlst)
             shared == tmp[3] \in {"shared", "SHARED", "Shared"}
         IN  Let(PartitionNodeList(tmp[2]), LAMBDA nodelist :
                IF nodelist.err # "none" THEN [err |-> nodelist.err, value |-> parts]
                ELSE NormPartitions(
                        (tmp[1] :> Partition(tmp[1], nodelist.value, shared, tmp[4]))
                            @@ parts,
                        Tail(partstrlst)))

\* NormQOSs(qosstrlst)
RECURSIVE NormQOSs(_, _)
NormQOSs(qoss, qosstrlst) ==
    IF qosstrlst = <<>> THEN qoss
    ELSE LET tmp == Head(qosstrlst)
         IN  NormQOSs((tmp[1] :> QOS(tmp[1], tmp[2])) @@ qoss, Tail(qosstrlst))

\* NormNodes(nodestrlst): a Node for every name of the expanded range.
RECURSIVE NormNodes(_, _)
NormNodes(nodes, nodestrlst) ==
    IF nodestrlst = <<>> THEN [err |-> "none", value |-> nodes]
    ELSE LET tmp == Head(nodestrlst)
         IN  Let(exp_noderangestr(tmp[1]), LAMBDA nodelist :
                IF nodelist.err # "none" THEN [err |-> nodelist.err, value |-> nodes]
                ELSE NormNodes(
                        [node \in Range(nodelist.value) |->
                            Node(node, tmp[2], tmp[3], tmp[4], tmp[5], tmp[6])] @@ nodes,
                        Tail(nodestrlst)))

\* NormAccounts(acctstrlst)
RECURSIVE NormAccounts(_, _)
NormAccounts(accts, acctstrlst) ==
    IF acctstrlst = <<>> THEN accts
    ELSE LET tmp == Head(acctstrlst)
         IN  NormAccounts((tmp[1] :> Account(tmp[1], tmp[3], tmp[7])) @@ accts,
                          Tail(acctstrlst))

\* The exception an expression of ParseConfig raises in place of the
\* exception it names: NoOptionError(option, section) called with one
\* argument is a TypeError, and the name ConfigParse is not defined.
NoOptionErrorOneArgument == "TypeError"
UndefinedConfigParse == "NameError"

\* ParseConfig(filename, cluster): the cluster it selects, the four maps and
\* the exception that escapes.
ParseConfigResult(config, cluster) ==
    LET sections == DOMAIN config
        selected == IF cluster # "" THEN cluster ELSE CHOOSE x \in sections : TRUE
        items == config[selected]
        partitions == OptionsOf(items, "partition")
        qoss == OptionsOf(items, "qos")
        nodes == OptionsOf(items, "nodes")
        accounts == OptionsOf(items, "account")
        none == [Partitions |-> <<>>, QOSs |-> <<>>, Nodes |-> <<>>, Accounts |-> <<>>]
    IN  IF cluster = "" /\ Cardinality(sections) > 1
            THEN [err |-> "ConfigParser.Error"] @@ none
        ELSE IF cluster = "" /\ sections = {}
            THEN [err |-> "IndexError"] @@ none
        ELSE IF selected \notin sections
            THEN [err |-> "ConfigParser.NoSectionError"] @@ none
        ELSE IF partitions = <<>>
            THEN [err |-> NoOptionErrorOneArgument] @@ none
        ELSE IF qoss = <<>>
            THEN [err |-> UndefinedConfigParse] @@ none
        ELSE IF nodes = <<>>
            THEN [err |-> NoOptionErrorOneArgument] @@ none
        ELSE IF accounts = <<>>
            THEN [err |-> NoOptionErrorOneArgument] @@ none
        ELSE Let(NormPartitions(<<>>, partitions), LAMBDA parts :
            IF parts.err # "none"
                THEN [err |-> parts.err, Partitions |-> parts.value] @@ none
            ELSE Let(NormNodes(<<>>, nodes), LAMBDA nds :
                IF nds.err # "none"
                    THEN [err |-> nds.err, Partitions |-> parts.value,
                          QOSs |-> NormQOSs(<<>>, qoss), Nodes |-> nds.value] @@ none
                ELSE [err |-> "none", Partitions |-> parts.value,
                      QOSs |-> NormQOSs(<<>>, qoss), Nodes |-> nds.value,
                      Accounts |-> NormAccounts(<<>>, accounts)]))

\* The items of a complete section, and an item of no category.
AllItems ==
    << <<<<"partition", "1">>,
         <<"pd", <<"n", "[", "1", "-", "2", "]">>, "EXCLUSIVE", 1>>>>,
       <<<<"partition", "2">>,
         <<"ps", <<"n", "[", "1", "-", "2", "]">>, "SHARED", 2>>>>,
       <<<<"qos", "1">>, <<"normal", 1>>>>,
       <<<<"nodes", "1">>, <<<<"n", "[", "1", "-", "2", "]">>, 2, 0, 2, 6, 1>>>>,
       <<<<"account", "1">>, <<"a1", "", "d1", "", "", "", 1>>>>,
       <<<<"node", "s">>, <<<<"n", "9">>, 1, 0, 1, 3, 1>>>>,
       <<<<"comment", "">>, <<"x">>>> >>

\* A section with a node range that int() refuses.
BadRangeItems ==
    [AllItems EXCEPT ![4] = <<<<"nodes", "1">>, <<<<"n", "[", "1", "-", "]">>, 2, 0, 2, 6, 1>>>>]

Categories == {"partition", "qos", "nodes", "account"}

\* The items of a section that defines the categories of a set only.
ItemsWith(cats) == SelectSeq(AllItems, LAMBDA x : x[1][1] \in cats \cup {"node", "comment"})

\* The configurations: no section, one section with any of the four
\* categories, a second section that is complete or empty.
ConfigPool ==
    {<<>>}
        \cup {"c1" :> ItemsWith(cats) : cats \in SUBSET Categories}
        \cup {"c1" :> BadRangeItems}
        \cup {("c1" :> ItemsWith(cats)) @@ ("c2" :> ItemsWith(more)) :
                cats \in SUBSET Categories, more \in {{}, Categories}}

\* self.ParseConfig(config_file, config_cluster) of the constructor.
ParseConfig ==
    /\ pc = "ParseConfig"
    /\ Let(ParseConfigResult(args.config, args.cluster), LAMBDA r :
            /\ Partitions' = r.Partitions
            /\ QOSs' = r.QOSs
            /\ Nodes' = r.Nodes
            /\ Accounts' = r.Accounts
            /\ err' = r.err
            /\ pc' = IF r.err = "none" THEN "parsed" ELSE "failed")
    /\ UNCHANGED <<Start, End, Steps, Jobs, jobids, i, JobStats, args, events, ret>>

-----------------------------------------------------------------------------
(* Job steps from the text that sacct prints: norm_timestamp,              *)
(* norm_timelapse, JobStep.PostInit, JobStep.FromList, JobStep.FromString  *)
(* and Cluster.CollectStepsFromString.  The text is a sequence of          *)
(* characters; the names that the other sections write as strings are      *)
(* related to their characters by Text.                                    *)

\* The characters of the names of the model.
Text ==
    ("x" :> <<"x">>) @@
    ("y" :> <<"y">>) @@
    ("u1" :> <<"u", "1">>) @@
    ("a1" :> <<"a", "1">>) @@
    ("g1" :> <<"g", "1">>) @@
    ("normal" :> <<"n", "o", "r", "m", "a", "l">>) @@
    ("pd" :> <<"p", "d">>) @@
    ("c1" :> <<"c", "1">>) @@
    ("COMPLETED" :> <<"C", "O", "M", "P", "L", "E", "T", "E", "D">>) @@
    ("FAILED" :> <<"F", "A", "I", "L", "E", "D">>) @@
    ("RUNNING" :> <<"R", "U", "N", "N", "I", "N", "G">>) @@
    ("PENDING" :> <<"P", "E", "N", "D", "I", "N", "G">>) @@
    ("0:0" :> <<"0", ":", "0">>) @@
    ("n1" :> <<"n", "1">>) @@
    ("n2" :> <<"n", "2">>)

\* The name that a text spells.
Name(str) == CHOOSE n \in DOMAIN Text : Text[n] = str

\* JobStep.Fields after GetFields: the fields of `sacct -e` that the model
\* carries, in the order sacct lists them.
SacctFields ==
    <<"Account", "AllocCPUS", "AveDiskRead", "AveDiskWrite", "AveRSS",
      "AveVMSize", "CPUTime", "Cluster", "ConsumedEnergy", "Elapsed",
      "Eligible", "End", "ExitCode", "Group", "JobID", "JobName",
      "MaxDiskRead", "MaxDiskReadNode", "MaxDiskWrite", "MaxDiskWriteNode",
      "MaxRSS", "MaxRSSNode", "MaxVMSize", "MaxVMSizeNode", "NCPUS",
      "NNodes", "NodeList", "Partition", "QOS", "ReqCPUS", "Reserved",
      "Start", "State", "Submit", "SystemCPU", "Timelimit", "TotalCPU",
      "User", "UserCPU">>

\* The values of one line of sacct for the step DefaultStep.
RawDefault ==
    [Account |-> <<"a", "1">>,
     AllocCPUS |-> <<"1">>,
     AveDiskRead |-> <<"1">>,
     AveDiskWrite |-> <<"1">>,
     AveRSS |-> <<"1">>,
     AveVMSize |-> <<"1">>,
     CPUTime |-> <<"0", "1", ":", "0", "0", ":", "0", "0">>,
     Cluster |-> <<"c", "1">>,
     ConsumedEnergy |-> <<>>,
     Elapsed |-> <<"0", "1", ":", "0", "0", ":", "0", "0">>,
     Eligible |-> <<"2", "0", "1", "6", "-", "0", "1", "-", "0", "2", "T", "0", "0", ":", "0", "0", ":", "0", "0">>,
     End |-> <<"2", "0", "1", "6", "-", "0", "1", "-", "0", "2", "T", "0", "1", ":", "0", "0", ":", "0", "0">>,
     ExitCode |-> <<"0", ":", "0">>,
     Group |-> <<"g", "1">>,
     JobID |-> <<"1">>,
     JobName |-> <<"x">>,
     MaxDiskRead |-> <<"1">>,
     MaxDiskReadNode |-> <<"n", "1">>,
     MaxDiskWrite |-> <<"1">>,
     MaxDiskWriteNode |-> <<"n", "1">>,
     MaxRSS |-> <<"1">>,
     MaxRSSNode |-> <<"n", "1">>,
     MaxVMSize |-> <<"1">>,
     MaxVMSizeNode |-> <<"n", "1">>,
     NCPUS |-> <<"1">>,
     NNodes |-> <<"1">>,
     NodeList |-> <<"n", "1">>,
     Partition |-> <<"p", "d">>,
     QOS |-> <<"n", "o", "r", "m", "a", "l">>,
     ReqCPUS |-> <<"1">>,
     Reserved |-> <<"0", "0", ":", "0", "0", ":", "0", "0">>,
     Start |-> <<"2", "0", "1", "6", "-", "0", "1", "-", "0", "2", "T", "0", "0", ":", "0", "0", ":", "0", "0">>,
     State |-> <<"C", "O", "M", "P", "L", "E", "T", "E", "D">>,
     Submit |-> <<"2", "0", "1", "6", "-", "0", "1", "-", "0", "2", "T", "0", "0", ":", "0", "0", ":", "0", "0">>,
     SystemCPU |-> <<"0", "0", ":", "0", "0", ":", "0", "0">>,
     Timelimit |-> <<"0", "2", ":", "0", "0", ":", "0", "0">>,
     TotalCPU |-> <<"0", "1", ":", "0", "0", ":", "0", "0">>,
     User |-> <<"u", "1">>,
     UserCPU |-> <<"0", "1", ":", "0", "0", ":", "0", "0">>]

Unknown == <<"U", "n", "k", "n", "o", "w", "n">>

Unlimited == <<"U", "N", "L", "I", "M", "I", "T", "E", "D">>

Invalid == <<"I", "N", "V", "A", "L", "I", "D">>

PartitionLimit == <<"P", "a", "r", "t", "i", "t", "i", "o", "n", "_", "L", "i", "m", "i", "t">>

\* An operation that returned value, and one that raised ValueError.
Returned(value) == [err |-> "none", value |-> value]

ValueError == [err |-> "ValueError", value |-> <<>>]

\* \d{n}: the characters from..to of str are there and are digits.
AreDigits(str, from, to) == to <= Len(str) /\ \A k \in from..to : IsDigit(str[k])

IsLeap(year) == year % 4 = 0 /\ (year % 100 # 0 \/ year % 400 = 0)

DaysInMonth(year, month) ==
    IF month = 2 THEN (IF IsLeap(year) THEN 29 ELSE 28)
    ELSE IF month \in {4, 6, 9, 11} THEN 30
    ELSE 31

RECURSIVE DaysBeforeMonth(_, _)
DaysBeforeMonth(year, month) ==
    IF month = 1 THEN 0
    ELSE DaysBeforeMonth(year, month - 1) + DaysInMonth(year, month - 1)

\* The days from 0001-01-01 to a date, that date included.
Ordinal(year, month, day) ==
    LET y == year - 1
    IN  y * 365 + (y \div 4) - (y \div 100) + (y \div 400)
            + DaysBeforeMonth(year, month) + day

\* datetime(year, month, day, hour, minute, second): the seconds since
\* 2016-01-01T00:00:00, ValueError for a date or a time that does not exist.
datetime(year, month, day, hour, minute, second) ==
    IF /\ year \in 1..9999
       /\ month \in 1..12
       /\ day \in 1..DaysInMonth(year, month)
       /\ hour \in 0..23
       /\ minute \in 0..59
       /\ second \in 0..59
        THEN Returned((Ordinal(year, month, day) - Ordinal(2016, 1, 1)) * DAY
                        + hour * HOUR + minute * MINUTE + second)
        ELSE ValueError

\* TS_RE.match(var): YYYY-MM-DD, then THH:MM or THH:MM:SS or nothing.
TimestampMatch(var) ==
    /\ Len(var) \in {10, 16, 19}
    /\ AreDigits(var, 1, 4)
    /\ var[5] = "-"
    /\ AreDigits(var, 6, 7)
    /\ var[8] = "-"
    /\ AreDigits(var, 9, 10)
    /\ Len(var) >= 16 =>
        /\ var[11] = "T"
        /\ AreDigits(var, 12, 13)
        /\ var[14] = ":"
        /\ AreDigits(var, 15, 16)
    /\ Len(var) = 19 =>
        /\ var[17] = ":"
        /\ AreDigits(var, 18, 19)

\* norm_timestamp(var), now being what datetime.now() returns.
norm_timestamp(var, now) ==
    IF TimestampMatch(var)
        THEN datetime(int(SubSeq(var, 1, 4)), int(SubSeq(var, 6, 7)),
                      int(SubSeq(var, 9, 10)),
                      IF Len(var) >= 16 THEN int(SubSeq(var, 12, 13)) ELSE 0,
                      IF Len(var) >= 16 THEN int(SubSeq(var, 15, 16)) ELSE 0,
                      IF Len(var) = 19 THEN int(SubSeq(var, 18, 19)) ELSE 0)
    ELSE IF var = Unknown THEN Returned(now)
    ELSE ValueError

\* \d{2} and nothing else.
TwoDigits(str) == Len(str) = 2 /\ AreDigits(str, 1, 2)

\* \d+ and nothing else.
SomeDigits(str) == str # <<>> /\ AreDigits(str, 1, Len(str))

\* var without the (\.\d{3})? that may end it.
TimelapseBody(var) ==
    IF /\ Len(var) >= 4
       /\ var[Len(var) - 3] = "."
       /\ AreDigits(var, Len(var) - 2, Len(var))
        THEN SubSeq(var, 1, Len(var) - 4)
        ELSE var

\* The fields of [D-][HH:][MM:]SS between its colons.
TimelapseParts(var) == Split(TimelapseBody(var), ":")

\* TE_RE.match(var): SS, MM:SS, HH:MM:SS or D-HH:MM:SS, each of HH, MM and SS
\* two digits, then .MMM or nothing.
TimelapseMatch(var) ==
    LET p == TimelapseParts(var)
        dh == Split(p[1], "-")
    IN  /\ Len(p) \in 1..3
        /\ \A k \in 2..Len(p) : TwoDigits(p[k])
        /\ \/ TwoDigits(p[1])
           \/ Len(p) = 3 /\ Len(dh) = 2 /\ SomeDigits(dh[1]) /\ TwoDigits(dh[2])

\* norm_timelapse(var): a timedelta in seconds.  The milliseconds matched
\* are below the unit of the model and are left out of the value.
norm_timelapse(var) ==
    LET p == TimelapseParts(var)
        dh == Split(p[1], "-")
        n == Len(p)
    IN  IF TimelapseMatch(var)
            THEN Returned((IF n = 3 /\ Len(dh) = 2 THEN int(dh[1]) ELSE 0) * DAY
                            + (IF n = 3 THEN int(dh[Len(dh)]) ELSE 0) * HOUR
                            + (IF n >= 2 THEN int(p[n - 1]) ELSE 0) * MINUTE
                            + int(p[n]))
        ELSE IF var = <<>> THEN Returned(0)
        ELSE IF var = Unlimited THEN Returned(TimedeltaMax)
        ELSE IF var = Invalid THEN Returned(0)
        ELSE IF var = PartitionLimit THEN Returned(0)
        ELSE ValueError

\* float(str), over the numerals of the model, which have no fraction and
\* no exponent.
float(str) == IF IsInt(str) THEN Returned(int(str)) ELSE ValueError

\* str.strip(c) for one character c.
RECURSIVE StripChar(_, _)
StripChar(str, c) ==
    IF str = <<>> THEN str
    ELSE IF Head(str) = c THEN StripChar(Tail(str), c)
    ELSE IF str[Len(str)] = c THEN StripChar(SubSeq(str, 1, Len(str) - 1), c)
    ELSE str

\* str.endswith(c) for one character c.
EndsWith(str, c) == str # <<>> /\ str[Len(str)] = c

\* float(value.strip(unit)) * size
Scaled(value, unit, size) ==
    LET r == float(StripChar(value, unit))
    IN  IF r.err = "none" THEN Returned(Num(r.value * size)) ELSE r

TimestampFields == {"Eligible", "End", "Start", "Submit"}

TimelapseFields ==
    {"CPUTime", "Elapsed", "MinCPU", "Reserved", "ResvCPU", "Suspended",
     "SystemCPU", "Timelimit", "TotalCPU", "UserCPU"}

IntegerFields == {"AllocCPUS", "CPUTimeRAW", "NCPUS", "NNodes", "ReqCPUS", "ResvCPURAW"}

SizeFields ==
    {"AveDiskRead", "AveDiskWrite", "AvePages", "AveRSS", "AveVMSize",
     "MaxDiskRead", "MaxDiskWrite", "MaxPages", "MaxRSS", "MaxVMSize"}

EnergyFields == {"ConsumedEnergy", "ConsumedEnergyRaw"}

\* A storage field: left alone when blank, a float of bytes otherwise.
Size(value) ==
    IF value = <<>> THEN Returned(Blank)
    ELSE IF EndsWith(value, "K") THEN Scaled(value, "K", KB)
    ELSE IF EndsWith(value, "M") THEN Scaled(value, "M", MB)
    ELSE IF EndsWith(value, "G") THEN Scaled(value, "G", GB)
    ELSE IF EndsWith(value, "T") THEN Scaled(value, "T", KB * GB)
    ELSE IF EndsWith(value, "P") THEN Scaled(value, "P", MB * GB)
    ELSE IF EndsWith(value, "E") THEN Scaled(value, "E", GB * GB)
    ELSE Scaled(value, "", 1)

\* The names of the nodes of exp_noderangestr(value).
NodeNames(value) ==
    Let(exp_noderangestr(value), LAMBDA r :
        IF r.err = "none"
            THEN Returned([k \in 1..Len(r.value) |-> Name(r.value[k])])
            ELSE [err |-> r.err, value |-> <<>>])

\* step['JobID'] stays the string it was; the model holds the integers
\* between its dots.
JobIdOf(value) ==
    LET parts == Split(value, ".")
    IN  [k \in 1..Len(parts) |-> int(parts[k])]

\* What one pass of the loop of PostInit leaves in self[key].  A field of
\* no branch stays the string it was, written as the name it spells.
Converted(key, value, now) ==
    IF key \in TimestampFields THEN norm_timestamp(value, now)
    ELSE IF key \in TimelapseFields THEN norm_timelapse(value)
    ELSE IF key \in IntegerFields
        THEN Returned(IF IsInt(value) THEN int(value) ELSE value)
    ELSE IF key \in SizeFields THEN Size(value)
    ELSE IF key \in EnergyFields
        THEN (IF value = <<>> THEN Returned(Blank) ELSE Scaled(value, "", 1))
    ELSE IF key = "NodeList" THEN NodeNames(value)
    ELSE IF key = "JobID" THEN Returned(JobIdOf(value))
    ELSE Returned(Name(value))

\* for key in JobStep.Fields, from the k-th field on.
RECURSIVE PostInitFrom(_, _, _)
PostInitFrom(self, k, now) ==
    IF k > Len(SacctFields) THEN Returned(self)
    ELSE LET key == SacctFields[k]
         IN  Let(Converted(key, self[key], now), LAMBDA r :
                IF r.err # "none" THEN [err |-> r.err, value |-> self]
                ELSE PostInitFrom([self EXCEPT ![key] = r.value], k + 1, now))

PostInit(self, now) == PostInitFrom(self, 1, now)

\* What FromList returns: a step, or None.
Some(step) == [err |-> "none", found |-> TRUE, step |-> step]

None == [err |-> "none", found |-> FALSE, step |-> <<>>]

Raised(e) == [err |-> e, found |-> FALSE, step |-> <<>>]

\* step[cls.Fields[i]] = var[i] for every i
Zipped(var) ==
    [key \in Range(SacctFields) |->
        var[CHOOSE k \in 1..Len(SacctFields) : SacctFields[k] = key]]

\* Mutant of FromList: the fields are converted before the state is
\* looked at.
FromListConvertFirst(var, now) ==
    IF Len(SacctFields) # Len(var) THEN None
    ELSE Let(PostInit(Zipped(var), now), LAMBDA r :
            IF r.err # "none" THEN Raised(r.err)
            ELSE IF Zipped(var)["State"] \in {Text["RUNNING"], Text["PENDING"]}
                THEN None
            ELSE Some(r.value))

\* JobStep.FromList(var)
FromList(var, now) ==
    IF Len(SacctFields) # Len(var) THEN None
    ELSE IF Zipped(var)["State"] \in {Text["RUNNING"], Text["PENDING"]} THEN None
    ELSE Let(PostInit(Zipped(var), now), LAMBDA r :
            IF r.err # "none" THEN Raised(r.err) ELSE Some(r.value))

\* JobStep.FromString(var)
FromString(var, now) == FromList(Split(var, "|"), now)

\* self['Cluster'], the section of the configuration that was read.
ClusterName == "c1"

\* [step for step in var.split('\n') if step]
Lines(var) == SelectSeq(Split(var, "\n"), LAMBDA step : step # <<>>)

\* The loop of CollectStepsFromString from the k-th line on: Cluster['Steps']
\* after it, and the exception that ended it, if any.
RECURSIVE CollectStepsFrom(_, _, _, _)
CollectStepsFrom(list, steps, k, now) ==
    IF k > Len(steps) THEN [err |-> "none", Steps |-> list]
    ELSE Let(FromString(steps[k], now), LAMBDA tmp :
            IF tmp.err # "none" THEN [err |-> tmp.err, Steps |-> list]
            ELSE IF tmp.found
                THEN CollectStepsFrom(
                        Append(list, [tmp.step EXCEPT !["Cluster"] = ClusterName]),
                        steps, k + 1, now)
            ELSE CollectStepsFrom(list, steps, k + 1, now))

\* The values of a line, in the order of the fields, and the line.
Values(raw) == [k \in 1..Len(SacctFields) |-> raw[SacctFields[k]]]

Line(raw) == Join(Values(raw), "|")

\* The lines explored: a parent step, a child step on two nodes, a line
\* that lacks its last value, a running step whose times are not set, a
\* step with a start and one with a duration that no format matches, and
\* a step with the two tolerated words.
LinePool ==
    {Line(RawDefault),
     Line([RawDefault EXCEPT !.JobID = <<"1", ".", "1">>,
                             !.NNodes = <<"2">>,
                             !.NodeList = <<"n", "[", "1", "-", "2", "]">>,
                             !.MaxRSS = <<"2", "K">>]),
     Join(SubSeq(Values(RawDefault), 1, Len(SacctFields) - 1), "|"),
     Line([RawDefault EXCEPT !.JobID = <<"2">>,
                             !.State = Text["RUNNING"],
                             !.End = Unknown,
                             !.Elapsed = <<"-">>]),
     Line([RawDefault EXCEPT !.JobID = <<"2">>,
                             !.Start = <<"N", "o", "n", "e">>]),
     Line([RawDefault EXCEPT !.JobID = <<"2">>,
                             !.Elapsed = <<"1", ":", "0", "0", ":", "0", "0">>]),
     Line([RawDefault EXCEPT !.JobID = <<"2">>,
                             !.State = Text["FAILED"],
                             !.End = Unknown,
                             !.Timelimit = Unlimited])}

\* What datetime.now() returns: a time after the window.
NowPool == {WindowEnd + DAY}

\* The text that sacct prints for a list of lines.
Output(lines) ==
    IF lines = <<>> THEN <<>> ELSE Join(lines, "\n") \o <<"\n">>

\* JobStep.FromList(var), called on its own.
JobStepFromList ==
    /\ pc = "FromList"
    /\ Let(FromList(args.var, args.now), LAMBDA r :
            /\ ret' = IF r.found THEN <<r.step>> ELSE <<>>
            /\ err' = r.err
            /\ pc' = IF r.err = "none" THEN "returned" ELSE "failed")
    /\ UNCHANGED <<conf, Steps, Jobs, jobids, i, JobStats, args, events>>

\* self.CollectSteps(sacct_opt, sacct_file) of the constructor, on the text
\* that sacct printed or that the file holds.
CollectStepsFromString ==
    /\ pc = "CollectSteps"
    /\ Let(CollectStepsFrom(Steps, Lines(args.output), 1, args.now), LAMBDA r :
            /\ Steps' = r.Steps
            /\ err' = r.err
            /\ pc' = IF r.err = "none" THEN "CollectJobs" ELSE "failed")
    /\ UNCHANGED <<conf, Jobs, jobids, i, JobStats, args, events, ret>>

-----------------------------------------------------------------------------
(* Specifications: the constructor of Cluster after ParseConfig and        *)
(* CollectSteps, on each family of inputs.                                 *)

InitConf(parts_conf, qoss_conf, nodes_conf, accts_conf, start, end, steps) ==
    /\ Partitions = parts_conf
    /\ QOSs = qoss_conf
    /\ Nodes = nodes_conf
    /\ Accounts = accts_conf
    /\ Start = start
    /\ End = end
    /\ Steps = steps
    /\ Jobs = <<>>
    /\ jobids = <<>>
    /\ i = 1
    /\ JobStats = <<>>
    /\ args = [filter |-> [group \in {} |-> {}], ServUnits |-> 0, CPUTime |-> 0]
    /\ events = <<>>
    /\ ret = <<>>
    /\ pc = "CollectJobs"
    /\ err = "none"

InitWith(steps) ==
    InitConf(PartitionsConf, QOSsConf, NodesConf, AccountsConf,
             WindowStart, WindowEnd, steps)

Init == \E steps \in StepLists(AssemblePool) : InitWith(steps)

InitPurge == \E steps \in ParentLists(PurgePool) : InitWith(steps)

InitPopData == \E step \in PopDataPool : InitWith(<<step>>)

InitStats == \E steps \in ParentLists(StatsPool) : InitWith(steps)

InitEvents == \E steps \in ParentLists(EventsPool) : InitWith(steps)

InitFold ==
    \E parent \in FoldParents, children \in StepLists(FoldChildren) :
        InitWith(<<parent>> \o children)

Next == CollectJobs \/ PurgeJobs \/ CollectStats \/ NormStats

\* A call of a function of the module, outside the constructor.
InitCall(name, a) ==
    /\ Partitions = <<>>
    /\ QOSs = <<>>
    /\ Nodes = <<>>
    /\ Accounts = <<>>
    /\ Start = 0
    /\ End = 0
    /\ Steps = <<>>
    /\ Jobs = <<>>
    /\ jobids = <<>>
    /\ i = 1
    /\ JobStats = <<>>
    /\ args = a
    /\ events = <<>>
    /\ ret = <<>>
    /\ pc = name
    /\ err = "none"

\* Mutant of CyclicAdvance: a CPU is counted only for a node that is defined.
CyclicAdvanceDefined(cpus, node, nodes_conf) ==
    IF node \in DOMAIN nodes_conf THEN cpus + 1 ELSE cpus

\* cpus += 1, in front of the lookup nodes_conf[node] that may raise.
CyclicAdvance(cpus, node, nodes_conf) == cpus + 1

\* exp_cpulist(job, nodes_conf, shared) up to its cyclic branch: the other
\* branches are one loop over the node list each.
ExpCpulistEnter ==
    /\ pc = "exp_cpulist"
    /\ LET job == args.job
           cyclic == /\ args.shared
                     /\ job.NNodes # 0
                     /\ job.AllocCPUS % job.NNodes # 0
       IN  /\ pc' = IF cyclic THEN "while" ELSE "returned"
           /\ ret' = IF cyclic THEN <<>>
                     ELSE exp_cpulist(job, args.nodes_conf, args.shared)
    /\ UNCHANGED <<conf, Steps, Jobs, jobids, i, JobStats, args, events, err>>

\* while cpus < job['AllocCPUS']: the test, which starts the for loop over
\* the node list or ends the function.
CyclicWhile ==
    /\ pc = "while"
    /\ pc' = IF args.cpus < args.job.AllocCPUS THEN "for" ELSE "returned"
    /\ i' = 1
    /\ UNCHANGED <<conf, Steps, Jobs, jobids, JobStats, args, events, ret, err>>

\* for node in job['NodeList']: one node, or the end of the list.
CyclicFor ==
    /\ pc = "for"
    /\ IF i <= Len(args.job.NodeList)
           THEN LET node == args.job.NodeList[i]
                IN  /\ args' = [args EXCEPT
                                   !.cpus = CyclicAdvance(@, node, args.nodes_conf)]
                    /\ ret' = IF node \in DOMAIN args.nodes_conf
                                 THEN Append(ret, args.nodes_conf[node].Name)
                                 ELSE ret
                    /\ i' = i + 1
                    /\ pc' = pc
           ELSE /\ pc' = "while"
                /\ UNCHANGED <<args, ret, i>>
    /\ UNCHANGED <<conf, Steps, Jobs, jobids, JobStats, events, err>>

InitRange ==
    \/ \E rng \in RangePool : InitCall("exp_range", [rng |-> rng])
    \/ \E var \in NodeRangePool : InitCall("exp_noderangestr", [var |-> var])
    \/ \E var \in NodeRangePool : InitCall("NormPartitions", [nodes |-> var])

NextRange == ExpRange \/ ExpNodeRangeStr \/ ExpPartitionNodes

\* A call of exp_cpulist for a job of up to MaxCpus CPUs, whose node list,
\* as exp_noderangestr returns it, has at least one entry.
InitCyclic ==
    \E nodelist \in CyclicNodeLists, cpus \in 1..MaxCpus, nnodes \in 0..3,
       shared \in BOOLEAN :
        InitCall("exp_cpulist",
                 [job |-> [DefaultStep EXCEPT !.NodeList = nodelist,
                                              !.AllocCPUS = cpus,
                                              !.NNodes = nnodes],
                  nodes_conf |-> NodesConf, shared |-> shared, cpus |-> 0])

NextCyclic == ExpCpulistEnter \/ CyclicWhile \/ CyclicFor

InitConfig ==
    \E config \in ConfigPool, cluster \in {"", "c1", "c2", "c3"} :
        InitCall("ParseConfig", [config |-> config, cluster |-> cluster])

NextConfig == ParseConfig

\* The constructor at CollectSteps, with the text that sacct printed.
InitCollectSteps(var, now) ==
    /\ Partitions = PartitionsConf
    /\ QOSs = QOSsConf
    /\ Nodes = NodesConf
    /\ Accounts = AccountsConf
    /\ Start = WindowStart
    /\ End = WindowEnd
    /\ Steps = <<>>
    /\ Jobs = <<>>
    /\ jobids = <<>>
    /\ i = 1
    /\ JobStats = <<>>
    /\ args = [output |-> var, now |-> now]
    /\ events = <<>>
    /\ ret = <<>>
    /\ pc = "CollectSteps"
    /\ err = "none"

InitCollect ==
    \/ \E lines \in StepLists(LinePool), now \in NowPool :
        InitCollectSteps(Output(lines), now)
    \/ \E line \in LinePool, now \in NowPool :
        InitCall("FromList", [var |-> Split(line, "|"), now |-> now])

NextCollect == JobStepFromList \/ CollectStepsFromString \/ Next

InitEight ==
    \E steps \in ParentLists(EightPool), w \in EightWindows :
        InitConf(EightPartitionsConf, EightQOSsConf, EightNodesConf,
                 EightAccountsConf, w[1], w[2], steps)

NextEvents ==
    CollectJobs \/ PurgeJobs \/ CollectStats \/ NormStats \/ CollectEvents \/ NormEvents

NextStats == CollectJobs \/ PurgeJobs \/ FilteredCollectStats \/ NormStats

Spec == Init /\ [][Next]_vars

SpecPurge == InitPurge /\ [][Next]_vars

SpecPopData == InitPopData /\ [][Next]_vars

SpecStats == InitStats /\ [][NextStats]_vars

SpecEvents == InitEvents /\ [][NextEvents]_vars

SpecEight == InitEight /\ [][Next]_vars

SpecRange == InitRange /\ [][NextRange]_vars

SpecConfig == InitConfig /\ [][NextConfig]_vars

SpecCollect == InitCollect /\ [][NextCollect]_vars

SpecFold == InitFold /\ [][Next]_vars

SpecCyclic == InitCyclic /\ [][NextCyclic]_vars /\ WF_vars(NextCyclic)

-----------------------------------------------------------------------------
(* Properties. *)

\* PurgeJobs has run and nothing failed since.
AfterPurge == pc \in {"CollectStats", "NormStats", "done"}

\* CollectStats has run without an exception.
AfterCollect == pc \in {"NormStats", "done"}

IsParent(step) == step.JobID = JobIdPrefix(step.JobID)

\* The value of a job for a grouping key, base or derived.
ValueOf(job, group) ==
    IF group \in GroupExt
        THEN strftime(job[GroupExtParts[group][1]], GroupExtParts[group][2])
        ELSE job[group]

\* The job passes the filter: its value for every filtered key is allowed.
Passes(job, filter) == \A group \in DOMAIN filter : ValueOf(job, group) \in filter[group]

Passing(filter) == {k \in 1..Len(Jobs) : Passes(Jobs[k], filter)}

\* The sum of a field over the jobs (0-based indices) of an index list.
SumOfJobs(indices, field) ==
    SumSeq([k \in 1..Len(indices) |-> Jobs[indices[k] + 1][field]])

\* C1: after PurgeJobs every job of the list has its partition and its
\* account in the Topology Model, its nodes among the model's nodes and its
\* End inside the window [Start, End], bounds included.
C1_PurgeCorrect ==
    AfterPurge =>
        \A k \in 1..Len(Jobs) :
            /\ Jobs[k].Partition \in DOMAIN Partitions
            /\ Jobs[k].Account \in DOMAIN Accounts
            /\ Range(Jobs[k].NodeList) \subseteq DOMAIN Nodes
            /\ Start <= Jobs[k].End
            /\ Jobs[k].End <= End

\* Two adjacent jobs had to be removed, and the third, which ends on the
\* upper bound of the window, was kept.
C1_Witness ==
    /\ AfterPurge
    /\ Len(Steps) = 3
    /\ Steps[1].Partition = "px"
    /\ Steps[2].Account = "ax"
    /\ Steps[3].End = End
    /\ Len(Jobs) = 1
    /\ Jobs[1].JobID = <<3>>

\* C2: for every grouping key, base or derived, the NumJobs of the group
\* values sum to the number of jobs that passed the filter.
C2_NumJobsTotal ==
    AfterCollect =>
        \A group \in AllGroups :
            SumFn([key \in DOMAIN JobStats[group] |-> JobStats[group][key].NumJobs])
                = Cardinality(Passing(args.filter))

\* Three jobs, two of which pass a filter on the account: two groups of one
\* job by job id, one group of two jobs by account.
C2_Witness ==
    /\ AfterCollect
    /\ Len(Jobs) = 3
    /\ DOMAIN args.filter = {"Account"}
    /\ Cardinality(Passing(args.filter)) = 2
    /\ Cardinality(DOMAIN JobStats["JobID"]) = 2
    /\ JobStats["Account"]["a1"].NumJobs = 2

\* C3: a child step is added to a job only when the last job started has
\* its job id; any other child step is dropped: no job changes and no
\* error is raised.
C3_ChildSteps ==
    [][(pc = "CollectJobs" /\ i <= Len(Steps) /\ ~IsParent(Steps[i])) =>
        IF Len(Jobs) > 0 /\ Jobs[Len(Jobs)].JobID = JobIdPrefix(Steps[i].JobID)
            THEN /\ Len(Jobs') = Len(Jobs)
                 /\ \A k \in 1..(Len(Jobs) - 1) : Jobs'[k] = Jobs[k]
                 /\ Jobs'[Len(Jobs)].steps = Append(Jobs[Len(Jobs)].steps, Steps[i])
                 /\ err' = "none"
            ELSE /\ Jobs' = Jobs
                 /\ err' = "none"
                 /\ pc' = "CollectJobs"
                 /\ i' = i + 1]_vars

\* A child step of job 1 arrived after job 2 was started and was dropped,
\* and a child step arrived before any job.
C3_Witness ==
    /\ pc = "CollectJobs"
    /\ Len(Steps) = 3
    /\ i = 4
    /\ Steps[1].JobID = <<1>>
    /\ Steps[2].JobID = <<2>>
    /\ Steps[3].JobID = <<1, 1>>
    /\ Len(Jobs) = 2
    /\ Jobs[1].NSteps = 0
    /\ Jobs[2].NSteps = 0
    /\ err = "none"

\* The k-th step is a parent step of a job id that an earlier parent step had.
IsDuplicateParent(k) ==
    /\ IsParent(Steps[k])
    /\ \E m \in 1..(k - 1) : Steps[m].JobID = Steps[k].JobID

\* The first parent step of the job id of the k-th step.
FirstParent(k) ==
    Steps[CHOOSE m \in 1..k :
            /\ Steps[m].JobID = Steps[k].JobID
            /\ \A n \in 1..(m - 1) : Steps[n].JobID # Steps[k].JobID]

\* C4: a second parent step of a job id is tolerated when its JobName, User
\* and Partition are those of the first one, and is a fatal error when one
\* of the three differs.
C4_DuplicateParent ==
    \A k \in 1..Len(Steps) :
        IsDuplicateParent(k) =>
            IF \/ Steps[k].JobName # FirstParent(k).JobName
               \/ Steps[k].User # FirstParent(k).User
               \/ Steps[k].Partition # FirstParent(k).Partition
                THEN i <= k
                ELSE ~(pc = "failed" /\ i = k)

\* C5: in a shared partition, with AllocCPUS not divisible by NNodes and
\* every node defined, the CPU list has exactly AllocCPUS entries.
C5_CyclicExact ==
    \A k \in 1..Len(Jobs) :
        (/\ Jobs[k].Partition \in DOMAIN Partitions
         /\ Partitions[Jobs[k].Partition].Shared
         /\ Jobs[k].NNodes > 0
         /\ Jobs[k].NNodes = Len(Jobs[k].NodeList)
         /\ Jobs[k].AllocCPUS % Jobs[k].NNodes # 0
         /\ Range(Jobs[k].NodeList) \subseteq DOMAIN Nodes)
            => Len(Jobs[k].CPUList) = Jobs[k].AllocCPUS

\* How often a node is in a CPU list.
CpusOn(cpulist, node) == Cardinality({k \in 1..Len(cpulist) : cpulist[k] = node})

InModel(job) ==
    /\ job.Partition \in DOMAIN Partitions
    /\ job.QOS \in DOMAIN QOSs
    /\ job.Account \in DOMAIN Accounts

\* C6: ServUnits is Elapsed times the sum of the charge modifiers of the
\* entries of the CPU list; Charge is ServUnits in hours times the
\* partition, QOS and account modifiers, and 0 when one of the three is not
\* in the Topology Model; one hour on one 1-processor node of a non-shared
\* partition with all modifiers 1 is 1 hour of ServUnits and a Charge of 1.
C6_Charge ==
    \A k \in 1..Len(Jobs) :
        LET job == Jobs[k]
        IN  /\ job.ServUnits =
                 job.Elapsed * SumFn([node \in DOMAIN Nodes |->
                                         CpusOn(job.CPUList, node) * Nodes[node].Modifier])
            /\ IF InModel(job)
                  THEN job.Charge.n * HOUR =
                          job.ServUnits * Partitions[job.Partition].Modifier
                                        * QOSs[job.QOS].Modifier
                                        * Accounts[job.Account].Modifier
                                        * job.Charge.d
                  ELSE job.Charge.n = 0
            /\ (/\ InModel(job)
                /\ job.Elapsed = HOUR
                /\ ~Partitions[job.Partition].Shared
                /\ Len(job.NodeList) = 1
                /\ job.NodeList[1] \in DOMAIN Nodes
                /\ Nodes[job.NodeList[1]].PPN = 1
                /\ Nodes[job.NodeList[1]].Modifier = 1
                /\ Partitions[job.Partition].Modifier = 1
                /\ QOSs[job.QOS].Modifier = 1
                /\ Accounts[job.Account].Modifier = 1)
                   => job.ServUnits = HOUR /\ job.Charge = RatInt(1)

\* A job of a shared partition on two nodes of different modifiers, charged
\* with three modifiers that are not 1.
C6_Witness ==
    /\ Len(Jobs) = 1
    /\ Jobs[1].Partition = "ps"
    /\ Jobs[1].QOS = "high"
    /\ Jobs[1].Account = "a2"
    /\ Jobs[1].Elapsed = HOUR
    /\ Jobs[1].CPUList = <<"n1", "n2">>
    /\ Jobs[1].ServUnits = 3 * HOUR
    /\ Jobs[1].Charge = RatInt(36)

\* C7: EfficiencyT and EfficiencyU are >= 0, are 0 when the denominator
\* (NodeTime, TotalCPU) is 0, and are the ratio as computed otherwise, a
\* ratio above 1.0 included, without an error.
C7_Efficiency ==
    \A k \in 1..Len(Jobs) :
        LET job == Jobs[k]
        IN  /\ job.EfficiencyT.n >= 0 /\ job.EfficiencyT.d > 0
            /\ job.EfficiencyU.n >= 0 /\ job.EfficiencyU.d > 0
            /\ IF job.NodeTime = 0 THEN job.EfficiencyT.n = 0
               ELSE job.EfficiencyT.n * job.NodeTime = job.TotalCPU * job.EfficiencyT.d
            /\ IF job.TotalCPU = 0 THEN job.EfficiencyU.n = 0
               ELSE job.EfficiencyU.n * job.TotalCPU = job.UserCPU * job.EfficiencyU.d
            /\ err = "none"

\* A job whose two efficiencies are above 1.0.
C7_Witness ==
    /\ Len(Jobs) = 1
    /\ Jobs[1].EfficiencyT.n > Jobs[1].EfficiencyT.d
    /\ Jobs[1].EfficiencyU.n > Jobs[1].EfficiencyU.d
    /\ err = "none"

\* C8: with a global ServUnits denominator of 0, the SUPer of a group value
\* is its ServUnits sum over the ServUnits sum of all values of the group,
\* times 100, and 0 when that total is 0 too; no division error escapes.
C8_PercentFallback ==
    /\ err # "ZeroDivisionError"
    /\ (pc = "done" /\ args.ServUnits = 0) =>
          \A group \in AllGroups :
              LET sum(key) == SumOfJobs(JobStats[group][key].JobIndex, "ServUnits")
                  total == SumFn([key \in DOMAIN JobStats[group] |-> sum(key)])
              IN  \A key \in DOMAIN JobStats[group] :
                      JobStats[group][key].SUPer =
                          IF total = 0 THEN RatInt(0) ELSE Rat(sum(key) * 100, total)

\* Two accounts share the ServUnits of three jobs, 1/3 and 2/3.
C8_Witness ==
    /\ pc = "done"
    /\ args.ServUnits = 0
    /\ DOMAIN JobStats["Account"] = {"a1", "a2"}
    /\ JobStats["Account"]["a1"].SUPer = Rat(100, 3)
    /\ JobStats["Account"]["a2"].SUPer = Rat(200, 3)

DurationSums ==
    {"ServUnits", "NodeTime", "CPUTime", "TotalCPU", "SystemCPU", "UserCPU",
     "Timelimit", "Elapsed", "Reserved"}

\* C9: while jobs are accumulated into a group, a duration sum that
\* overflows is set to the maximum duration, and no error is raised.
C9_OverflowClamped ==
    /\ ~(err = "OverflowError" /\ JobStats = <<>>)
    /\ pc = "NormStats" =>
          \A group \in AllGroups : \A key \in DOMAIN JobStats[group] :
              \A res \in DurationSums :
                  LET sum == SumOfJobs(JobStats[group][key].JobIndex, res)
                  IN  JobStats[group][key][res] =
                          IF sum > TimedeltaMax THEN TimedeltaMax ELSE sum

\* The job indices that CollectStats aggregated.
Aggregated ==
    UNION {Range(JobStats["Cluster"][key].JobIndex) : key \in DOMAIN JobStats["Cluster"]}

\* C10: under a filter over valid grouping keys, base or derived, the jobs
\* aggregated are exactly those that pass the filter.
C10_FilterExact ==
    DOMAIN args.filter \subseteq AllGroups =>
        /\ err # "KeyError"
        /\ AfterCollect => Aggregated = {k - 1 : k \in Passing(args.filter)}

\* NormEvents has run.
Charted == pc = "charted"

Min(a, b) == IF a < b THEN a ELSE b
Max(a, b) == IF a < b THEN b ELSE a

\* The positions of the events of a kind, in the order of the sweep.
EventsOf(kind) == {k \in 1..Len(events) : events[k].Event = kind}

\* C11: two jobs with disjoint intervals, the End of the earlier not after
\* the Start of the later: NJobs is at most 1 at every event of the sweep.
C11_DisjointPeak ==
    (/\ Charted
     /\ Len(Jobs) = 2
     /\ \A k \in 1..2 : Jobs[k].Start < Jobs[k].End
     /\ \/ Jobs[1].End <= Jobs[2].Start
        \/ Jobs[2].End <= Jobs[1].Start)
        => \A k \in 1..Len(events) : events[k].NJobs <= 1

\* C12: two overlapping jobs, the later Start before the earlier End: NJobs
\* is 2 at the later START event and at every event up to the earlier END
\* event, where it is 1.
C12_OverlapPeak ==
    (/\ Charted
     /\ Len(Jobs) = 2
     /\ Max(Jobs[1].Start, Jobs[2].Start) < Min(Jobs[1].End, Jobs[2].End))
        => \E s \in EventsOf(EVENT_START), e \in EventsOf(EVENT_END) :
              /\ \E t \in EventsOf(EVENT_START) : t < s
              /\ \A t \in EventsOf(EVENT_END) : e <= t
              /\ events[s].Timestamp = Max(Jobs[1].Start, Jobs[2].Start)
              /\ events[e].Timestamp = Min(Jobs[1].End, Jobs[2].End)
              /\ s < e
              /\ \A k \in s..(e - 1) : events[k].NJobs = 2
              /\ events[e].NJobs = 1

\* Two jobs, the second starting during the first and ending after it.
C12_Witness ==
    /\ Charted
    /\ Len(Jobs) = 2
    /\ Jobs[1].Start < Jobs[2].Start
    /\ Jobs[2].Start < Jobs[1].End
    /\ Jobs[1].End < Jobs[2].End
    /\ Len(events) = 4
    /\ events[2].NJobs = 2
    /\ events[3].Index = 0
    /\ events[3].NJobs = 1

\* NormStats has run.
Normalised == pc \in {"done", "NormEvents", "charted"}

\* C13: two nodes of 8 processors, one dedicated partition, one QOS, one
\* account, all modifiers 1.0; two non-overlapping 1-hour, 8-CPU, single-node
\* jobs of the account give, by account, NumJobs = 2, ServUnits = 16.0 hours
\* and, when the ServUnits denominator is that sum, SUPer = 100.0.
C13_EndToEnd ==
    (/\ Normalised
     /\ \A x \in DOMAIN Nodes : Nodes[x].PPN = 8 /\ Nodes[x].Modifier = 1
     /\ Cardinality(DOMAIN Nodes) = 2
     /\ Len(Jobs) = 2
     /\ \A k \in 1..2 :
            /\ Jobs[k].Account = "a1"
            /\ Jobs[k].Elapsed = HOUR
            /\ Jobs[k].AllocCPUS = 8
            /\ Len(Jobs[k].NodeList) = 1
            /\ Jobs[k].State = "COMPLETED"
     /\ \/ Jobs[1].End <= Jobs[2].Start
        \/ Jobs[2].End <= Jobs[1].Start)
        => /\ DOMAIN JobStats["Account"] = {"a1"}
           /\ JobStats["Account"]["a1"].NumJobs = 2
           /\ JobStats["Account"]["a1"].ServUnits = RatInt(16)
           /\ args.ServUnits = 16 * HOUR => JobStats["Account"]["a1"].SUPer = RatInt(100)

\* The two jobs fill a window of one hour's end and the next: the
\* denominator of the constructor is their sum.
C13_Witness ==
    /\ Normalised
    /\ End - Start = HOUR
    /\ Len(Jobs) = 2
    /\ Jobs[1].NodeList = <<"m1">>
    /\ Jobs[2].NodeList = <<"m2">>
    /\ Jobs[1].End = Jobs[2].Start
    /\ args.ServUnits = 16 * HOUR
    /\ JobStats["Account"]["a1"].NumJobs = 2
    /\ JobStats["Account"]["a1"].ServUnits = RatInt(16)
    /\ JobStats["Account"]["a1"].SUPer = RatInt(100)

\* A call of exp_range has ended.
RangeCalled == pc \in {"returned", "failed"} /\ DOMAIN args = {"rng"}

\* A call that expands a node range string, of nodes or of a partition, has
\* ended, and the string it was given.
NodeRangeCalled == pc \in {"returned", "failed"} /\ DOMAIN args \in {{"var"}, {"nodes"}}

NodeRangeGiven == IF DOMAIN args = {"var"} THEN args.var ELSE args.nodes

\* Every part of the range string is one integer or two with a '-' between.
WellFormedRange(rng) ==
    \A k \in DOMAIN RangeParts(rng) :
        /\ Len(RangeParts(rng)[k]) <= 2
        /\ \A m \in DOMAIN RangeParts(rng)[k] : IsInt(RangeParts(rng)[k][m])

\* C14: for integers a and b, exp_range of "b-a" yields the same set of
\* entries as exp_range of "a-b": one entry for each integer between the two
\* bounds, bounds included.
C14_Descending ==
    (/\ RangeCalled
     /\ Len(RangeParts(args.rng)) = 1
     /\ Len(RangeParts(args.rng)[1]) = 2
     /\ WellFormedRange(args.rng))
        => LET x == RangeParts(args.rng)[1]
               lo == Min(int(x[1]), int(x[2]))
               hi == Max(int(x[1]), int(x[2]))
           IN  /\ err = "none"
               /\ Len(ret) = hi - lo + 1
               /\ {int(ret[k]) : k \in DOMAIN ret} = lo..hi
               /\ Range(ret) = Range(exp_range(x[2] \o <<"-">> \o x[1]).value)

\* "2-0" gives "0", "1", "2".
C14_Witness ==
    /\ RangeCalled
    /\ args.rng = <<"2", "-", "0">>
    /\ Range(ret) = {<<"0">>, <<"1">>, <<"2">>}
    /\ Len(ret) = 3

\* C15: when all bounds of the range string have the same printed width,
\* every entry is zero-padded to that width; when the widths differ no entry
\* is padded.
C15_Padding ==
    (RangeCalled /\ WellFormedRange(args.rng))
        => LET parts == RangeParts(args.rng)
               widths == UNION {{Len(Strip(parts[k][m])) : m \in DOMAIN parts[k]} :
                                    k \in DOMAIN parts}
           IN  /\ err = "none"
               /\ \A k \in DOMAIN ret :
                    IF Cardinality(widths) = 1
                        THEN {Len(ret[k])} = widths
                        ELSE ret[k] = <<"0">> \/ Head(ret[k]) # "0"

\* "1-2,10-11" gives "1", "2", "10", "11".
C15_Witness ==
    /\ RangeCalled
    /\ args.rng = <<"1", "-", "2", ",", "1", "0", "-", "1", "1">>
    /\ Range(ret) = {<<"1">>, <<"2">>, <<"1", "0">>, <<"1", "1">>}
    /\ Len(ret) = 4

Brackets(str) == {k \in DOMAIN str : str[k] \in {"[", "]"}}

\* The string has one '[' and behind it one ']', with a well formed range
\* between the two.
WellFormedNodeRange(str) ==
    \E q \in DOMAIN str, e \in DOMAIN str :
        /\ q < e
        /\ str[q] = "[" /\ str[e] = "]"
        /\ Brackets(str) = {q, e}
        /\ WellFormedRange(SubSeq(str, q + 1, e - 1))

\* C17: a node or partition range string with malformed brackets or with a
\* bound that is no integer fails with a parse error, and is never returned
\* unexpanded as a node name.
C17_MalformedFatal ==
    (NodeRangeCalled /\ Brackets(NodeRangeGiven) # {}
        /\ ~WellFormedNodeRange(NodeRangeGiven))
        => /\ pc = "failed"
           /\ err = "ValueError"
           /\ \A k \in DOMAIN ret : Brackets(ret[k]) = {}

ParseConfigCalled == pc \in {"parsed", "failed"} /\ DOMAIN args = {"config", "cluster"}

\* The errors of the configuration parser.
ConfigurationErrors ==
    {"ConfigParser.Error", "ConfigParser.NoSectionError", "ConfigParser.NoOptionError"}

\* The section ParseConfig reads, when there is one.
SelectedSection ==
    IF args.cluster # "" THEN args.cluster ELSE CHOOSE x \in DOMAIN args.config : TRUE

\* The section read has no option of the category.
Missing(word) ==
    /\ args.cluster # "" \/ Cardinality(DOMAIN args.config) = 1
    /\ SelectedSection \in DOMAIN args.config
    /\ \A k \in DOMAIN args.config[SelectedSection] :
            args.config[SelectedSection][k][1][1] # word

\* C16: ParseConfig fails with a configuration error when more than one
\* section exists and none is selected, when the selected section is
\* absent, and when the partition, the QOS, the node or the account
\* definitions are missing.
C16_ConfigErrors ==
    (/\ ParseConfigCalled
     /\ \/ args.cluster = "" /\ Cardinality(DOMAIN args.config) > 1
        \/ args.cluster # "" /\ args.cluster \notin DOMAIN args.config
        \/ \E word \in {"partition", "qos", "nodes", "account"} : Missing(word))
        => pc = "failed" /\ err \in ConfigurationErrors

\* JobStep.FromList has been called on its own and has come back.
FromListCalled == pc \in {"returned", "failed"} /\ DOMAIN args = {"var", "now"}

\* The list has one value for each field.
Counted(var) == Len(var) = Len(SacctFields)

\* The State of the list is RUNNING or PENDING.
Unfinished(var) ==
    Counted(var) /\ Zipped(var)["State"] \in {Text["RUNNING"], Text["PENDING"]}

\* The fields of the list that PostInit cannot convert.
Unconvertible(var, now) ==
    {SacctFields[k] : k \in {n \in 1..Len(var) :
        n <= Len(SacctFields) /\ Converted(SacctFields[n], var[n], now).err # "none"}}

\* C18, as stated: JobStep.FromList returns a step if and only if the
\* number of values equals the number of fields and the State is neither
\* RUNNING nor PENDING.
C18_FromListIff ==
    FromListCalled =>
        (ret # <<>> <=> (Counted(args.var) /\ ~Unfinished(args.var)))

\* C18, amended: JobStep.FromList returns a step if and only if the number
\* of values equals the number of fields, the State is neither RUNNING nor
\* PENDING and every field converts; it raises ValueError when the count and
\* the State pass and a field does not convert; and a list of another count
\* or a RUNNING or PENDING list returns None with no exception, whatever its
\* fields hold, none of them having been converted.
C18_FromList ==
    FromListCalled =>
        LET passes == Counted(args.var) /\ ~Unfinished(args.var)
            converts == Unconvertible(args.var, args.now) = {}
        IN  /\ ret # <<>> <=> (passes /\ converts)
            /\ pc = "failed" <=> (passes /\ ~converts)
            /\ pc = "failed" => err = "ValueError"
            /\ ~passes => (ret = <<>> /\ pc = "returned" /\ err = "none")
            /\ ret # <<>> => ret[1] = PostInit(Zipped(args.var), args.now).value

\* A RUNNING list with a field that no format matches came back as None.
C18_Witness ==
    /\ FromListCalled
    /\ Unfinished(args.var)
    /\ "Elapsed" \in Unconvertible(args.var, args.now)
    /\ pc = "returned"
    /\ ret = <<>>

\* CollectStepsFromString has run on the text of the constructor.
StepsCollected == "output" \in DOMAIN args /\ pc # "CollectSteps"

\* The lines of the text whose count of values is not that of the fields.
Miscounted == {k \in 1..Len(Lines(args.output)) :
                ~Counted(Split(Lines(args.output)[k], "|"))}

\* C19: a raw line whose value count does not match the field count stops
\* the pipeline: no line after it is collected as a step and no job is
\* assembled.
C19_MismatchStops ==
    (StepsCollected /\ Miscounted # {}) =>
        LET k == CHOOSE m \in Miscounted : \A n \in Miscounted : m <= n
        IN  /\ Steps = CollectStepsFrom(<<>>, SubSeq(Lines(args.output), 1, k - 1),
                                        1, args.now).Steps
            /\ Jobs = <<>>

\* A line of a finished step with a timestamp or a duration that PostInit
\* cannot convert.
Malformed(line, now) ==
    LET var == Split(line, "|")
    IN  /\ Counted(var)
        /\ ~Unfinished(var)
        /\ Unconvertible(var, now) \cap (TimestampFields \cup TimelapseFields) # {}

\* C20: a malformed timestamp or duration in one completed step record is
\* fatal for that record only: the batch is not aborted and the other
\* lines of the text are collected as steps.
C20_MalformedIsolated ==
    (StepsCollected /\ \E k \in 1..Len(Lines(args.output)) :
                            Malformed(Lines(args.output)[k], args.now)) =>
        /\ pc # "failed"
        /\ Steps = CollectStepsFrom(
                    <<>>,
                    SelectSeq(Lines(args.output), LAMBDA line : ~Malformed(line, args.now)),
                    1, args.now).Steps

\* C21: for a job in a non-shared partition, exp_cpulist holds each defined
\* node of the node list processors-per-node times for each time the list
\* names it and nothing for an undefined node; its size is the sum of the
\* processors-per-node of the defined nodes of the list, whatever AllocCPUS
\* is.
C21_Dedicated ==
    \A k \in 1..Len(Jobs) :
        LET job == Jobs[k]
        IN  (job.Partition \in DOMAIN Partitions /\ ~Partitions[job.Partition].Shared) =>
                /\ \A node \in Range(job.CPUList) \cup Range(job.NodeList) \cup DOMAIN Nodes :
                        CpusOn(job.CPUList, node) =
                            IF node \in DOMAIN Nodes
                                THEN Nodes[node].PPN * CpusOn(job.NodeList, node)
                                ELSE 0
                /\ Len(job.CPUList) =
                        SumSeq([m \in 1..Len(job.NodeList) |->
                                    IF job.NodeList[m] \in DOMAIN Nodes
                                        THEN Nodes[job.NodeList[m]].PPN
                                        ELSE 0])

\* A job of the dedicated partition on a defined node of two processors
\* and an undefined node, with three CPUs allocated: two entries.
C21_Witness ==
    /\ Len(Jobs) = 1
    /\ Jobs[1].Partition = "pd"
    /\ Jobs[1].NodeList = <<"n2", "n3">>
    /\ Jobs[1].AllocCPUS = 3
    /\ Jobs[1].NNodes = 2
    /\ Jobs[1].CPUList = <<"n2", "n2">>

\* CollectEvents has run.
EventsCollected == pc \in {"NormEvents", "charted"}

\* The positions of the events of a kind of the job of a 0-based index.
EventsOfJob(index, kind) ==
    {k \in 1..Len(events) : events[k].Index = index /\ events[k].Event = kind}

\* C22: CollectEvents returns exactly one START and one END event for each
\* job whose Start is before its End, at the Start and at the End of the
\* job, and no event for any other job; the events are ordered by
\* non-decreasing timestamp, every START before every END of the same
\* timestamp.
C22_CollectEvents ==
    EventsCollected =>
        /\ \A k \in 1..Len(events) :
                /\ events[k].Index \in 0..(Len(Jobs) - 1)
                /\ events[k].Event \in {EVENT_START, EVENT_END}
                /\ events[k].Timestamp =
                        IF events[k].Event = EVENT_START
                            THEN Jobs[events[k].Index + 1].Start
                            ELSE Jobs[events[k].Index + 1].End
        /\ \A j \in 1..Len(Jobs), kind \in {EVENT_START, EVENT_END} :
                Cardinality(EventsOfJob(j - 1, kind)) =
                    IF Jobs[j].Start < Jobs[j].End THEN 1 ELSE 0
        /\ \A k \in 1..Len(events), m \in 1..Len(events) :
                k < m =>
                    /\ events[k].Timestamp <= events[m].Timestamp
                    /\ (/\ events[k].Timestamp = events[m].Timestamp
                        /\ events[k].Event = EVENT_END)
                            => events[m].Event = EVENT_END

\* The second job starts when the first ends and its START is in front of
\* that END; the third job ends when it starts and has no event.
C22_Witness ==
    /\ EventsCollected
    /\ Len(Jobs) = 3
    /\ Jobs[1].End = Jobs[2].Start
    /\ Jobs[3].Start = Jobs[3].End
    /\ Len(events) = 4
    /\ events[2].Index = 1 /\ events[2].Event = EVENT_START
    /\ events[3].Index = 0 /\ events[3].Event = EVENT_END
    /\ events[2].Timestamp = events[3].Timestamp

\* The jobs (0-based indices) whose START event is at or before the k-th
\* event and whose END event is after it.
ActiveAt(k) ==
    {j \in 0..(Len(Jobs) - 1) :
        /\ \E s \in EventsOfJob(j, EVENT_START) : s <= k
        /\ \E e \in EventsOfJob(j, EVENT_END) : e > k}

\* C23: after NormEvents, at every event Indices is exactly the set of the
\* jobs whose START is at or before that position and whose END is after
\* it, NJobs is its size, NCPUs is the sum of AllocCPUS over it, and NNodes
\* is the number of distinct nodes of the node lists of its jobs.
C23_ActiveSet ==
    Charted =>
        \A k \in 1..Len(events) :
            /\ Range(events[k].Indices) = ActiveAt(k)
            /\ Len(events[k].Indices) = Cardinality(ActiveAt(k))
            /\ events[k].NJobs = Cardinality(ActiveAt(k))
            /\ events[k].NCPUs =
                    SumFn([j \in ActiveAt(k) |-> Jobs[j + 1].AllocCPUS])
            /\ events[k].NNodes =
                    Cardinality(UNION {Range(Jobs[j + 1].NodeList) : j \in ActiveAt(k)})

\* Three jobs are active at once, one on a node and two on that node and
\* another one, with six CPUs between them.
C23_Witness ==
    /\ Charted
    /\ Len(Jobs) = 3
    /\ \E k \in 1..Len(events) :
            /\ events[k].NJobs = 3
            /\ events[k].NCPUs = 6
            /\ events[k].NNodes = 2
            /\ Range(events[k].Indices) = {0, 1, 2}

\* The fields of a Job that the fold of a child step may change: the step
\* count, the four maxima and their nodes. The list of the steps grows.
FoldedFields ==
    {"NSteps", "steps", "MaxDiskRead", "MaxDiskReadNode",
     "MaxDiskWrite", "MaxDiskWriteNode", "MaxRSS", "MaxRSSNode",
     "MaxVMSize", "MaxVMSizeNode"}

\* A step of CollectJobs that folds a child step into the last job.
ChildFolded ==
    /\ pc = "CollectJobs" /\ pc' = "CollectJobs"
    /\ i' = i + 1
    /\ Len(Jobs') = Len(Jobs)
    /\ Jobs' # Jobs

\* C24: the fold of a child step changes the step count and the maxima
\* with their nodes, and leaves every other field of the Job, the average
\* memory and disk fields among them, as it was.
C24_ChildFoldFrame ==
    [][ChildFolded =>
        \A key \in DOMAIN Jobs[Len(Jobs)] \ FoldedFields :
            Jobs'[Len(Jobs)][key] = Jobs[Len(Jobs)][key]]_vars

\* What the fold of a child step leaves alone in the code: every field but
\* the step count, the maxima with their nodes, and the four averages.
FoldFrameOfCode ==
    [][ChildFolded =>
        \A key \in DOMAIN Jobs[Len(Jobs)] \
                    (FoldedFields \cup
                     {"AveDiskRead", "AveDiskWrite", "AveRSS", "AveVMSize"}) :
            Jobs'[Len(Jobs)][key] = Jobs[Len(Jobs)][key]]_vars

\* The greatest float(step[key]) of the steps, and the first step with it.
MaxOver(steps, key) ==
    LET values == {ToFloat(steps[k][key]) : k \in 1..Len(steps)}
    IN  CHOOSE m \in values : \A v \in values : v <= m

FirstWith(steps, key) ==
    LET m == MaxOver(steps, key)
        at == {k \in 1..Len(steps) : ToFloat(steps[k][key]) = m}
    IN  CHOOSE k \in at : \A l \in at : k <= l

MaximumOfSteps(job, key, node) ==
    /\ job[key].kind = "float"
    /\ job[key].v = MaxOver(job.steps, key)
    /\ job[node] = job.steps[FirstWith(job.steps, key)][node]

\* C25: MaxRSS and MaxVMSize of a Job are the maxima over its parent and
\* child steps, a value that is not numeric counting as 0; they never go
\* down from one fold to the next; and the node is the node of the first
\* step that supplied the maximum.
C25_Maxima ==
    /\ [](\A n \in 1..Len(Jobs) :
            /\ MaximumOfSteps(Jobs[n], "MaxRSS", "MaxRSSNode")
            /\ MaximumOfSteps(Jobs[n], "MaxVMSize", "MaxVMSizeNode"))
    /\ [][ChildFolded =>
            /\ ToFloat(Jobs'[Len(Jobs)].MaxRSS) >= ToFloat(Jobs[Len(Jobs)].MaxRSS)
            /\ ToFloat(Jobs'[Len(Jobs)].MaxVMSize)
                   >= ToFloat(Jobs[Len(Jobs)].MaxVMSize)]_vars

\* A job whose parent step reports no memory and two of whose child steps
\* report the maximum for different nodes, after a smaller one.
C25_Witness ==
    \E n \in 1..Len(Jobs) :
        LET steps == Jobs[n].steps
        IN  /\ Len(steps) = 4
            /\ steps[1].MaxRSS = Blank
            /\ steps[2].MaxRSS = Num(1)
            /\ steps[3].MaxRSS = Num(3) /\ steps[4].MaxRSS = Num(3)
            /\ steps[3].MaxRSSNode = "n2" /\ steps[4].MaxRSSNode = "n1"
            /\ Jobs[n].MaxRSS = Num(3)
            /\ Jobs[n].MaxRSSNode = "n2"
            /\ Jobs[n].MaxVMSizeNode = "n2"

\* The job belongs to the Topology Model and ends inside the window.
Designated(job) ==
    /\ job.Partition \in DOMAIN Partitions
    /\ job.Account \in DOMAIN Accounts
    /\ Range(job.NodeList) \subseteq DOMAIN Nodes
    /\ Start <= job.End
    /\ job.End <= End

\* C26: PurgeJobs removes nothing else: the jobs that satisfy the four
\* conditions are all in the list after it, in the order they had.
C26_PurgeKeepsValid ==
    [][pc = "CollectJobs" /\ pc' = "CollectStats" =>
        Jobs' = SelectSeq(Jobs, Designated)]_vars

\* Of three jobs the first ends on the lower bound of the window and the
\* third on the upper one; the second, of an unknown partition, is gone.
C26_Witness ==
    /\ AfterPurge
    /\ Len(Steps) = 3
    /\ Steps[1].End = Start
    /\ Steps[2].Partition = "px"
    /\ Steps[3].End = End
    /\ Len(Jobs) = 2
    /\ Jobs[1].JobID = <<1>>
    /\ Jobs[2].JobID = <<3>>

\* The parent steps of a QOS that the Topology Model does not define, and
\* of a partition, an account, nodes and an End that are valid.
UnknownQOSSteps ==
    {k \in 1..Len(Steps) :
        /\ IsParent(Steps[k])
        /\ Steps[k].QOS \notin DOMAIN QOSs
        /\ Designated(Steps[k])}

\* The places in the job list of the job of a step.
JobsOfStep(k) == {n \in 1..Len(Jobs) : Jobs[n].JobID = Steps[k].JobID}

\* C27: a job of an unknown QOS, its partition, account, nodes and End
\* being valid, is not purged: it is in the job list with Charge 0, and
\* every aggregate counts it.
C27_UnknownQOSKept ==
    \A k \in UnknownQOSSteps :
        /\ AfterPurge =>
               /\ Cardinality(JobsOfStep(k)) = 1
               /\ \A n \in JobsOfStep(k) : Jobs[n].Charge = RatInt(0)
        /\ AfterCollect =>
               \A n \in JobsOfStep(k), group \in AllGroups :
                   /\ GroupKey(Jobs[n], group) \in DOMAIN JobStats[group]
                   /\ n - 1 \in Range(JobStats[group][GroupKey(Jobs[n], group)].JobIndex)

\* The job of the unknown QOS is the second of three and the only one left
\* after the purge; the aggregates have been normalised.
C27_Witness ==
    /\ pc = "done"
    /\ Len(Steps) = 3
    /\ UnknownQOSSteps = {2}
    /\ Steps[1].Account = "ax"
    /\ Steps[3].End > End
    /\ Len(Jobs) = 1
    /\ Jobs[1].QOS = "qx"
    /\ JobStats["QOS"]["qx"].NumJobs = 1

\* C28: the timeline sweep never fails and never goes negative: the first
\* event is a START, the job of every END event is in the active set of
\* the event before it (its START is further up in the list), NJobs and
\* NCPUs are at least 0 at every event, and at the last event the active
\* set is empty and NJobs and NCPUs are 0.
C28_SweepSound ==
    /\ EventsCollected =>
           /\ events # <<>> => events[1].Event = EVENT_START
           /\ \A k \in 1..Len(events) :
                  events[k].Event = EVENT_END =>
                      \E l \in 1..(k - 1) :
                          /\ events[l].Event = EVENT_START
                          /\ events[l].Index = events[k].Index
    /\ Charted =>
           /\ \A k \in 2..Len(events) :
                  events[k].Event = EVENT_END =>
                      events[k].Index \in Range(events[k - 1].Indices)
           /\ \A k \in 1..Len(events) :
                  events[k].NJobs >= 0 /\ events[k].NCPUs >= 0
           /\ events # <<>> =>
                  /\ events[Len(events)].Indices = <<>>
                  /\ events[Len(events)].NJobs = 0
                  /\ events[Len(events)].NCPUs = 0

\* Three jobs: one that ends before it starts and has no events, and two
\* that overlap, the first of which ends when the second does.
C28_Witness ==
    /\ Charted
    /\ Len(Jobs) = 3
    /\ Jobs[1].Start > Jobs[1].End
    /\ Len(events) = 4
    /\ events[2].NJobs = 2
    /\ events[3].Timestamp = events[4].Timestamp
    /\ events[4].NJobs = 0

\* The call of exp_cpulist went through the cyclic branch.
CyclicRun == "cpus" \in DOMAIN args /\ args.shared /\ args.job.NNodes # 0
             /\ args.job.AllocCPUS % args.job.NNodes # 0

\* C29: exp_cpulist terminates for every job: in the cyclic branch the
\* loop ends after finitely many rounds over the node list, also when
\* some or all of its nodes are not defined; what it returns then is the
\* list the function gives.
C29_Terminates ==
    <>(/\ pc = "returned"
       /\ ret = exp_cpulist(args.job, args.nodes_conf, args.shared))

\* The cyclic branch has returned for a job of three CPUs on two nodes
\* neither of which is defined: two rounds, and no CPU in the list.
C29_Witness ==
    /\ pc = "returned"
    /\ CyclicRun
    /\ args.job.NodeList = <<"n3", "n4">>
    /\ args.job.AllocCPUS = 3
    /\ args.cpus = 4
    /\ ret = <<>>

\* The steps that CollectJobs has looked at.
StepsSeen == SubSeq(Steps, 1, i - 1)

\* The steps the jobs own, job after job.
RECURSIVE OwnedSteps(_)
OwnedSteps(jobs) ==
    IF jobs = <<>> THEN <<>> ELSE Head(jobs).steps \o OwnedSteps(Tail(jobs))

\* The elements of a, in their order, are elements of b at different places.
RECURSIVE IsSubsequence(_, _)
IsSubsequence(a, b) ==
    IF a = <<>> THEN TRUE
    ELSE IF b = <<>> THEN FALSE
    ELSE IF Head(a) = Head(b) THEN IsSubsequence(Tail(a), Tail(b))
    ELSE IsSubsequence(a, Tail(b))

\* C30: while and after CollectJobs there are as many Jobs as parent steps
\* seen, a step is owned by at most one Job, the steps a Job owns have its
\* id as prefix and the first of them is a parent step, and NSteps is the
\* number of the owned steps less one.
C30_Ownership ==
    (pc = "CollectJobs") =>
        /\ Len(Jobs) = Cardinality({k \in 1..(i - 1) : IsParent(Steps[k])})
        /\ IsSubsequence(OwnedSteps(Jobs), StepsSeen)
        /\ \A n \in 1..Len(Jobs) :
               LET job == Jobs[n]
               IN  /\ job.steps # <<>>
                   /\ IsParent(job.steps[1])
                   /\ \A s \in 1..Len(job.steps) :
                          /\ JobIdPrefix(job.steps[s].JobID) = job.JobID
                          /\ s > 1 => ~IsParent(job.steps[s])
                   /\ job.NSteps = Len(job.steps) - 1

\* Of three steps the first two are the parent step of job 1 and its child
\* step; the third, a child step of job 2, has no parent and no owner.
C30_Witness ==
    /\ pc = "CollectJobs"
    /\ i > Len(Steps)
    /\ Len(Steps) = 3
    /\ Steps[2].JobID = <<1, 1>>
    /\ Steps[3].JobID = <<2, 1>>
    /\ Len(Jobs) = 1
    /\ Jobs[1].steps = SubSeq(Steps, 1, 2)
    /\ Jobs[1].NSteps = 1

====
